---------------------------- MODULE Spec2Model ----------------------------
(***************************************************************************)
(* Model of the resilient query client of                                  *)
(* frontend/src/services/ethereumService.ts: class EthereumService with    *)
(* its failover loop tryProviders and the public operations built on it,   *)
(* of the components that call it, and of the text utilities.              *)
(*                                                                         *)
(* JavaScript runs one continuation at a time, so the code between two     *)
(* awaits is one atomic action.  A call of a public operation is a         *)
(* sequence of actions: the synchronous prefix up to the first provider    *)
(* request, then one action per settled provider request or fired timer.   *)
(* Each such action runs the code up to the next provider request, or to   *)
(* the return / throw of tryProviders.                                     *)
(*                                                                         *)
(* Specifications:                                                         *)
(*   Spec            one caller, calls follow each other, all operations   *)
(*   SpecFair        Spec with the fairness the event loop guarantees      *)
(*   SpecWindow      one caller scanning chains longer than the scan window *)
(*   SpecConcurrent  MaxCalls calls in flight at once                      *)
(*   SpecStable      SpecConcurrent against endpoints that do not change:  *)
(*                   an endpoint either answers every request or none      *)
(*   SpecHeights     one caller asking for the height of endpoints that    *)
(*                   each report a height of their own, which grows        *)
(*   SpecRecord      the normalisation of a raw transaction into a record  *)
(*   SpecUI          the components TransactionQuery and AddressQuery      *)
(*   SpecHex         utils/hexUtils.ts: str2hex, hex2str, isValidHex       *)
(*   SpecLate        Spec with what the ended races leave behind: the      *)
(*                   operations still running and the timers still set     *)
(*   SpecAddress     an address search submitted through AddressQuery      *)
(*   SpecWallet      the component WalletTransfer with its wagmi hooks     *)
(*   SpecWalletFair  SpecWallet where the wallet and the chain answer      *)
(*   SpecContract    SimpleTransferContract: recordTransfer and            *)
(*                   batchRecordTransfer, mined one transaction at a time  *)
(***************************************************************************)
EXTENDS Integers, Sequences, FiniteSets, TLC

\* ------------------------------------------------------------------ bounds
MaxCalls == 2          \* calls of the service that can be in flight at once
MaxLimit == 2          \* largest limit passed to getTransactionsByAddress
MaxSmallHeight == 2    \* heights 0..MaxSmallHeight of short chains
RichDepth == 2         \* only the RichDepth newest blocks hold transactions
MaxSmallValue == 40    \* amounts 0..MaxSmallValue wei, besides the large ones
MaxChars == 4          \* longest string given to str2hex, in characters
MaxRecords == 3        \* calls of the contract start while totalRecords is below
MaxBatch == 2          \* longest array passed to batchRecordTransfer
MaxBlock == 2          \* the calls of the contract are mined in blocks 1..MaxBlock

\* ------------------------------------------------------- program constants
NumUrls == 4           \* SEPOLIA_RPC_URLS.length
ScanWindow == 1000     \* Math.min(1000, latestBlockNumber)

Calls == 1..MaxCalls
\* the call slot of the one caller of Spec
Caller == CHOOSE c \in Calls : \A d \in Calls : c <= d

Min(a, b) == IF a < b THEN a ELSE b
Max(a, b) == IF a > b THEN a ELSE b

\* ------------------------------------------------------------------ inputs
\* transaction hashes a caller can pass; handleSearch of TransactionQuery
\* rejects only the empty input, so a malformed string reaches the service
TxHashes == {"0xWellFormed", "malformed"}
WellFormedHash(h) == h = "0xWellFormed"

\* an address in checksum spelling and the same address in lower case
Addresses == {"0xAb", "0xab"}

\* text.toLowerCase() of the texts that are typed or reported
ToLowerCase(text) ==
    CASE text = "0xInput" -> "0xinput"
      [] text = "0xAb" -> "0xab"
      [] text = "0xCd" -> "0xcd"
      [] OTHER -> text
Limits == 1..MaxLimit

\* what getBlockNumber can answer: short chains, and chains around the window
SmallHeights == 0..MaxSmallHeight
WindowHeights == {ScanWindow - 1, ScanWindow, ScanWindow + 1}

\* entries of block.transactions: transaction objects, or a bare hash string
TxObjects ==
    { [hash |-> "0xa1", from |-> "0xAb", to |-> "0xCd"],
      [hash |-> "0xa2", from |-> "0xCd", to |-> "0xAb"],
      [hash |-> "0xa3", from |-> "0xAb", to |-> "null"],
      [hash |-> "0xa4", from |-> "0xCd", to |-> "null"] }
HashString == [hash |-> "0xa5", from |-> "string", to |-> "string"]
TxEntries == TxObjects \cup {HashString}

\* block.transactions of a fetched block (a transaction is in a block once)
Bodies ==
    {<<>>} \cup { <<t>> : t \in TxEntries }
           \cup { st \in TxObjects \X TxObjects : st[1] # st[2] }

\* the addresses typed into AddressQuery: the two spellings above and an
\* address without letters, which has one spelling only
DigitsOnly == "0x12"
EnteredAddresses == Addresses \cup {DigitsOnly}
SearchLimit == 20      \* getTransactionsByAddress(searchAddr, 20)

\* block.transactions of the blocks fetched for an address search: as above,
\* with a transaction of the address without letters
FromDigitsOnly == [hash |-> "0xa6", from |-> DigitsOnly, to |-> "0xCd"]
SearchBodies ==
    {<<>>} \cup { <<t>> : t \in TxEntries \cup {FromDigitsOnly} }
           \cup { <<FromDigitsOnly, t>> : t \in TxObjects }

NoArgs == [txHash |-> "0xWellFormed", address |-> "0xAb", limit |-> 1]
NoScan == [latestBlockNumber |-> 0, startBlock |-> 0, blockNumber |-> 0,
           block |-> <<>>, pos |-> 0, transactions |-> <<>>]

VARIABLES
    numProviders,          \* this.providers.length
    currentProviderIndex,  \* this.currentProviderIndex
    pc,                    \* per call: "idle", "attempt", "done", "failed"
    operation,             \* per call: the public operation that was called
    args,                  \* per call: txHash, address, limit
    i,                     \* per call: loop variable of tryProviders
    providerIndex,         \* per call: const providerIndex of the iteration
    request,               \* per call: provider request the operation awaits
    lastError,             \* per call: let lastError
    result,                \* per call: what the call returned or threw
    scan,                  \* per call: locals of the getTransactionsByAddress operation
    environment,           \* "any": endpoints answer or fail at will; "stable"
    healthy,               \* stable environment: endpoints that answer
    nodeHeights,           \* chain[e]: the height endpoint e reports; last: the
                           \* value getCurrentBlockNumber returned most recently
    \* ---- history variables (observations, never read by the actions)
    startIndex,            \* per call: currentProviderIndex when it was called
    attempts,              \* per call: number of operation(provider) invocations
    lastAnswer,            \* per call: how the last provider request settled
    blocksFetched,         \* per call: getBlock requests of the current attempt
    lastGood,              \* endpoint of the most recent successful attempt
    expected,              \* per call: matching entries of the loaded blocks that
                           \* the scan has not given up
    missed,                \* per call: the scan has given up a matching entry
    contacted,             \* per call: endpoints the running attempt sent requests to
    late,                  \* what the ended attempts left behind: operations
                           \* still running, timers still set
    search,                \* the address as typed into AddressQuery, and the entries
                           \* of the loaded blocks that are its transactions
    \* ---- the other components
    norm,                  \* a provider transaction and the record made of it
    ui,                    \* the state of a query component (React state)
    hex,                   \* a string, its encoding and what is decoded from it
    wallet,                \* the state of WalletTransfer and of its wagmi hooks
    contract               \* the storage and the log of SimpleTransferContract

\* the variables of the service and those of the other components
serviceVars == <<numProviders, currentProviderIndex, pc, operation, args, i,
                 providerIndex, request, lastError, result, scan, environment, healthy,
                 startIndex, attempts, lastAnswer, blocksFetched, lastGood,
                 expected, missed, contacted, nodeHeights, late, search>>
otherVars == <<norm, ui, hex, wallet, contract>>
vars == <<serviceVars, otherVars>>

\* Promise.race leaves the loser of the race as it is: after the timer won,
\* operation(provider) goes on running; after operation(provider) settled,
\* the timer stays set until it fires.  What is left behind is followed only
\* where followed is TRUE (SpecLate); operations holds the endpoints of the
\* operations left running.
\* settled and fired note that an operation left running has settled and
\* that a timer left set has fired.
NoLate == [followed |-> FALSE, operations |-> {}, timer |-> FALSE,
           settled |-> FALSE, fired |-> FALSE]

\* the race of the running attempt of call c is over, loser is left behind
RaceLost(c, loser) ==
    IF ~late.followed THEN late
    ELSE IF loser = "operation"
         THEN [late EXCEPT !.operations = @ \cup {providerIndex[c]}]
         ELSE [late EXCEPT !.timer = TRUE]

\* An address search submitted through AddressQuery: address is the text of
\* the input field ("" where the service is called directly), found (history)
\* holds the transactions of the blocks loaded by the running attempt whose
\* sender or recipient is that address, whatever the letter case.
NoSearch == [address |-> "", found |-> {}]

SameAddress(a, b) == ToLowerCase(a) = ToLowerCase(b)

\* the attempt starts over: nothing is loaded
Unseen == [search EXCEPT !.found = {}]

\* block bn loaded with block.transactions = body
Seen(body, bn) ==
    IF search.address = "" THEN search
    ELSE [search EXCEPT !.found = @ \cup
            { [tx |-> body[k], blockNumber |-> bn] :
                k \in { m \in 1..Len(body) :
                          /\ body[m].from # "string"
                          /\ \/ SameAddress(body[m].from, search.address)
                             \/ SameAddress(body[m].to, search.address) } }]

\* first provider request of each operation(provider)
FirstRequest(op) ==
    CASE op = "getTransactionByHash"     -> "getTransaction"
      [] op = "getTransactionsByAddress" -> "getBlockNumberOfScan"
      [] op = "getCurrentBlockNumber"    -> "getBlockNumber"
      [] op = "getBlockByNumber"         -> "getBlock"

\* mutants of RotationIndex: rotation from endpoint 0; no wrap-around
RotationFromZero(k) == k % numProviders
RotationNoWrap(k) == currentProviderIndex + k

\* const providerIndex = (this.currentProviderIndex + i) % this.providers.length
RotationIndex(k) == (currentProviderIndex + k) % numProviders

\* messages of the errors a provider request is rejected with; the message of
\* an error can be empty
ProviderErrors == {"provider error", ""}

\* what the endpoints may do
CanAnswer(e) == environment = "any" \/ e \in healthy
CanReject(e) == environment = "any" \/ e \notin healthy

InitService ==
    /\ numProviders \in 1..NumUrls
    /\ currentProviderIndex = 0
    /\ pc = [c \in Calls |-> "idle"]
    /\ operation = [c \in Calls |-> "getCurrentBlockNumber"]
    /\ args = [c \in Calls |-> NoArgs]
    /\ i = [c \in Calls |-> 0]
    /\ providerIndex = [c \in Calls |-> 0]
    /\ request = [c \in Calls |-> "none"]
    /\ lastError = [c \in Calls |-> "null"]
    /\ result = [c \in Calls |-> "none"]
    /\ scan = [c \in Calls |-> NoScan]
    /\ startIndex = [c \in Calls |-> 0]
    /\ attempts = [c \in Calls |-> 0]
    /\ lastAnswer = [c \in Calls |-> "none"]
    /\ blocksFetched = [c \in Calls |-> 0]
    /\ lastGood = 0
    /\ expected = [c \in Calls |-> <<>>]
    /\ missed = [c \in Calls |-> FALSE]
    /\ contacted = [c \in Calls |-> {}]

\* nothing is being normalized
NoNorm == [stage |-> "none", tx |-> <<>>, receipt |-> <<>>, record |-> <<>>]

\* a query component as mounted: useState('') and so on; the transaction
\* component starts with the data source 'rpc'.  searchHash is the state of
\* that name of TransactionQuery and searchAddress of AddressQuery;
\* initialTxHash is the property that App passes to TransactionQuery.
\* pending: the service call of handleSearch has not returned; outcome: how
\* the last one ended; cleared: handleClear or handleDataSourceChange ran
\* and no search was submitted since.
Components == {"TransactionQuery", "AddressQuery"}
NoMessage == <<>>
Mounted(component) ==
    [component |-> component, initialTxHash |-> "", input |-> "", dataSource |-> "rpc",
     searchHash |-> "", data |-> "none", loading |-> FALSE, error |-> NoMessage,
     graph |-> "idle", pending |-> FALSE, outcome |-> "none", cleared |-> FALSE]

\* nothing is being encoded
NoHex == [stage |-> "none", str |-> <<>>, encoded |-> <<>>, decoded |-> <<>>,
          thrown |-> FALSE, valid |-> FALSE, called |-> {}]

\* WalletTransfer as mounted: useState('') and false, no transaction sent;
\* send and receipt are the states of useSendTransaction and of
\* useWaitForTransactionReceipt, notified the calls of onTransactionSuccess
WalletMounted ==
    [isConnected |-> FALSE, toAddress |-> "", amount |-> "", message |-> "",
     isTransferring |-> FALSE, send |-> "idle", receipt |-> "idle", notified |-> 0]

\* the accounts that call the contract
Senders == {"0xAb", "0xCd"}

\* the contract as deployed: no record, nothing logged, no call yet.  last
\* is the last transaction: the function called, msg.sender, the number of
\* recipients, whether an argument was invalid (a recipient the zero
\* address, a value 0, arrays of unequal length), the block, and the error
\* of the revert (the empty list when it did not revert)
NoCall == [op |-> "none", sender |-> "", length |-> 0, invalid |-> FALSE,
           block |-> 0, reverted |-> <<>>]
Deployed ==
    [totalRecords |-> 0, userRecordCount |-> [s \in Senders |-> 0],
     recordExists |-> {}, events |-> <<>>, last |-> NoCall]

\* the other components at rest
OthersIdle ==
    /\ norm = NoNorm
    /\ ui = Mounted("TransactionQuery")
    /\ hex = NoHex
    /\ wallet = WalletMounted
    /\ contract = Deployed

\* all endpoints at height 0, nothing returned yet
FlatChains == [chain |-> [e \in 0..(NumUrls - 1) |-> 0], last |-> 0]

Init ==
    /\ InitService
    /\ late = NoLate
    /\ search = NoSearch
    /\ environment = "any"
    /\ healthy = {}
    /\ nodeHeights = FlatChains
    /\ OthersIdle

InitStable ==
    /\ InitService
    /\ late = NoLate
    /\ search = NoSearch
    /\ environment = "stable"
    /\ healthy \in SUBSET (0..(numProviders - 1))
    /\ nodeHeights = FlatChains
    /\ OthersIdle

\* A public operation is called: tryProviders runs synchronously through
\* "let lastError = null", the first loop test, the computation of
\* providerIndex and operation(provider) up to its first provider request.
Call(c, op, a) ==
    /\ pc[c] # "attempt"
    /\ pc' = [pc EXCEPT ![c] = "attempt"]
    /\ operation' = [operation EXCEPT ![c] = op]
    /\ args' = [args EXCEPT ![c] = a]
    /\ i' = [i EXCEPT ![c] = 0]
    /\ providerIndex' = [providerIndex EXCEPT ![c] = RotationIndex(0)]
    /\ request' = [request EXCEPT ![c] = FirstRequest(op)]
    /\ lastError' = [lastError EXCEPT ![c] = "null"]
    /\ result' = [result EXCEPT ![c] = "none"]
    /\ scan' = [scan EXCEPT ![c] = NoScan]
    /\ startIndex' = [startIndex EXCEPT ![c] = currentProviderIndex]
    /\ attempts' = [attempts EXCEPT ![c] = 1]
    /\ lastAnswer' = [lastAnswer EXCEPT ![c] = "none"]
    /\ blocksFetched' = [blocksFetched EXCEPT ![c] = 0]
    /\ expected' = [expected EXCEPT ![c] = <<>>]
    /\ missed' = [missed EXCEPT ![c] = FALSE]
    /\ search' = Unseen
    /\ contacted' = [contacted EXCEPT ![c] = {RotationIndex(0)}]
    /\ UNCHANGED <<numProviders, currentProviderIndex, environment, healthy, lastGood, late>>
    /\ UNCHANGED <<otherVars, nodeHeights>>

\* mutant of Succeed: the successful endpoint is not remembered
SucceedForgets(c, v) ==
    /\ CanAnswer(providerIndex[c])
    /\ pc' = [pc EXCEPT ![c] = "done"]
    /\ result' = [result EXCEPT ![c] = v]
    /\ lastGood' = providerIndex[c]
    /\ i' = [i EXCEPT ![c] = 0]
    /\ providerIndex' = [providerIndex EXCEPT ![c] = 0]
    /\ lastError' = [lastError EXCEPT ![c] = "null"]
    /\ contacted' = [contacted EXCEPT ![c] = {}]
    /\ UNCHANGED <<numProviders, currentProviderIndex, operation, args,
                   request, environment, healthy, startIndex, attempts>>
    /\ late' = RaceLost(c, "timer")
    /\ UNCHANGED otherVars

\* The race of the attempt is won by operation(provider) with value v:
\* "this.currentProviderIndex = providerIndex; return result".  The locals
\* i, providerIndex and lastError end with the call.
\* (scan, lastAnswer, blocksFetched, expected and missed are set by the
\* action that uses this)
Succeed(c, v) ==
    /\ CanAnswer(providerIndex[c])
    /\ pc' = [pc EXCEPT ![c] = "done"]
    /\ result' = [result EXCEPT ![c] = v]
    /\ currentProviderIndex' = providerIndex[c]
    /\ lastGood' = providerIndex[c]
    /\ i' = [i EXCEPT ![c] = 0]
    /\ providerIndex' = [providerIndex EXCEPT ![c] = 0]
    /\ lastError' = [lastError EXCEPT ![c] = "null"]
    /\ contacted' = [contacted EXCEPT ![c] = {}]
    /\ UNCHANGED <<numProviders, operation, args, request,
                   environment, healthy, startIndex, attempts>>
    /\ late' = RaceLost(c, "timer")
    /\ UNCHANGED otherVars

\* mutant of Fail: the loop gives up one endpoint early
FailStopsEarly(c, e) ==
    /\ CanReject(providerIndex[c])
    /\ lastError' = [lastError EXCEPT ![c] = e]
    /\ scan' = [scan EXCEPT ![c] = NoScan]
    /\ blocksFetched' = [blocksFetched EXCEPT ![c] = 0]
    /\ expected' = [expected EXCEPT ![c] = <<>>]
    /\ missed' = [missed EXCEPT ![c] = FALSE]
    /\ search' = Unseen
    /\ lastAnswer' = [lastAnswer EXCEPT ![c] = IF e = "Request timeout" THEN "none" ELSE "rejected"]
    /\ IF i[c] + 2 < numProviders
       THEN /\ i' = [i EXCEPT ![c] = i[c] + 1]
            /\ providerIndex' = [providerIndex EXCEPT ![c] = RotationIndex(i[c] + 1)]
            /\ request' = [request EXCEPT ![c] = FirstRequest(operation[c])]
            /\ attempts' = [attempts EXCEPT ![c] = attempts[c] + 1]
            /\ contacted' = [contacted EXCEPT ![c] = {RotationIndex(i[c] + 1)}]
            /\ UNCHANGED <<pc, result>>
       ELSE /\ pc' = [pc EXCEPT ![c] = "failed"]
            /\ result' = [result EXCEPT ![c] = "AllProvidersUnavailable"]
            /\ i' = [i EXCEPT ![c] = 0]
            /\ providerIndex' = [providerIndex EXCEPT ![c] = 0]
            /\ contacted' = [contacted EXCEPT ![c] = {}]
            /\ UNCHANGED <<request, attempts>>
    /\ UNCHANGED <<numProviders, currentProviderIndex, operation, args,
                   environment, healthy, startIndex, lastGood>>
    /\ late' = RaceLost(c, IF e = "Request timeout" THEN "operation" ELSE "timer")
    /\ UNCHANGED <<otherVars, nodeHeights>>

\* mutant of Fail: the catch block keeps the first error instead of the last
FailKeepsFirstError(c, e) ==
    /\ CanReject(providerIndex[c])
    /\ lastError' = [lastError EXCEPT ![c] = IF lastError[c] = "null" THEN e ELSE lastError[c]]
    /\ scan' = [scan EXCEPT ![c] = NoScan]
    /\ blocksFetched' = [blocksFetched EXCEPT ![c] = 0]
    /\ expected' = [expected EXCEPT ![c] = <<>>]
    /\ missed' = [missed EXCEPT ![c] = FALSE]
    /\ search' = Unseen
    /\ lastAnswer' = [lastAnswer EXCEPT ![c] = IF e = "Request timeout" THEN "none" ELSE "rejected"]
    /\ IF i[c] + 1 < numProviders
       THEN /\ i' = [i EXCEPT ![c] = i[c] + 1]
            /\ providerIndex' = [providerIndex EXCEPT ![c] = RotationIndex(i[c] + 1)]
            /\ request' = [request EXCEPT ![c] = FirstRequest(operation[c])]
            /\ attempts' = [attempts EXCEPT ![c] = attempts[c] + 1]
            /\ contacted' = [contacted EXCEPT ![c] = {RotationIndex(i[c] + 1)}]
            /\ UNCHANGED <<pc, result>>
       ELSE /\ pc' = [pc EXCEPT ![c] = "failed"]
            /\ result' = [result EXCEPT ![c] = "AllProvidersUnavailable"]
            /\ i' = [i EXCEPT ![c] = 0]
            /\ providerIndex' = [providerIndex EXCEPT ![c] = 0]
            /\ contacted' = [contacted EXCEPT ![c] = {}]
            /\ UNCHANGED <<request, attempts>>
    /\ UNCHANGED <<numProviders, currentProviderIndex, operation, args,
                   environment, healthy, startIndex, lastGood>>
    /\ late' = RaceLost(c, IF e = "Request timeout" THEN "operation" ELSE "timer")
    /\ UNCHANGED <<otherVars, nodeHeights>>

\* The race of the attempt is lost with error e: the catch block stores
\* lastError, the loop increments i and either starts the next attempt
\* (operation(provider) up to its first provider request) or leaves the
\* loop and throws the error built from lastError.
Fail(c, e) ==
    /\ CanReject(providerIndex[c])
    /\ lastError' = [lastError EXCEPT ![c] = e]
    /\ scan' = [scan EXCEPT ![c] = NoScan]
    /\ blocksFetched' = [blocksFetched EXCEPT ![c] = 0]
    /\ expected' = [expected EXCEPT ![c] = <<>>]
    /\ missed' = [missed EXCEPT ![c] = FALSE]
    /\ search' = Unseen
    /\ lastAnswer' = [lastAnswer EXCEPT ![c] = IF e = "Request timeout" THEN "none" ELSE "rejected"]
    /\ IF i[c] + 1 < numProviders
       THEN /\ i' = [i EXCEPT ![c] = i[c] + 1]
            /\ providerIndex' = [providerIndex EXCEPT ![c] = RotationIndex(i[c] + 1)]
            /\ request' = [request EXCEPT ![c] = FirstRequest(operation[c])]
            /\ attempts' = [attempts EXCEPT ![c] = attempts[c] + 1]
            /\ contacted' = [contacted EXCEPT ![c] = {RotationIndex(i[c] + 1)}]
            /\ UNCHANGED <<pc, result>>
       ELSE /\ pc' = [pc EXCEPT ![c] = "failed"]
            /\ result' = [result EXCEPT ![c] = "AllProvidersUnavailable"]
            /\ i' = [i EXCEPT ![c] = 0]
            /\ providerIndex' = [providerIndex EXCEPT ![c] = 0]
            /\ contacted' = [contacted EXCEPT ![c] = {}]
            /\ UNCHANGED <<request, attempts>>
    /\ UNCHANGED <<numProviders, currentProviderIndex, operation, args,
                   environment, healthy, startIndex, lastGood>>
    /\ late' = RaceLost(c, IF e = "Request timeout" THEN "operation" ELSE "timer")
    /\ UNCHANGED <<otherVars, nodeHeights>>

\* The error of a failed call, thrown after the loop:
\*   new Error(`所有 RPC 提供商都无法访问。最后一个错误: ${lastError?.message || '未知错误'}`)
\* An Error built this way has a message and nothing else of the loop; the
\* message is the fixed text followed by the last message ("unknown error"
\* stands for 未知错误, which replaces a missing or empty message).
FailureMessage(last) ==
    << "All RPC providers are unreachable. Last error: ",
       IF last \in {"null", ""} THEN "unknown error" ELSE last >>
ThrownError(c) == [message |-> FailureMessage(lastError[c])]

\* mutant of Continue: the next request goes to the provider that
\* this.currentProviderIndex names, not to the parameter of the closure
ContinueOnCurrent(c, r) ==
    /\ CanAnswer(providerIndex[c])
    /\ request' = [request EXCEPT ![c] = r]
    /\ contacted' = [contacted EXCEPT ![c] = @ \cup {currentProviderIndex}]
    /\ UNCHANGED <<numProviders, currentProviderIndex, pc, operation, args, i,
                   providerIndex, lastError, result, environment, healthy,
                   startIndex, attempts, lastGood, late>>
    /\ UNCHANGED otherVars

\* operation(provider) goes on to its next provider request r on the same
\* provider (the parameter of the closure); nothing outside the call changes
Continue(c, r) ==
    /\ CanAnswer(providerIndex[c])
    /\ request' = [request EXCEPT ![c] = r]
    /\ contacted' = [contacted EXCEPT ![c] = @ \cup {providerIndex[c]}]
    /\ UNCHANGED <<numProviders, currentProviderIndex, pc, operation, args, i,
                   providerIndex, lastError, result, environment, healthy,
                   startIndex, attempts, lastGood, late>>
    /\ UNCHANGED otherVars

\* the provider answered the awaited request with a value / with nothing
Answered(c, a) ==
    /\ lastAnswer' = [lastAnswer EXCEPT ![c] = a]
    /\ UNCHANGED <<scan, blocksFetched, expected, missed, search, nodeHeights>>

\* ---------------------------------------------------- getTransactionByHash

\* mutant of GetTransactionSettles: without "if (!tx) return null" the
\* operation goes on after an answer of null
GetTransactionSettlesNullGoesOn(c) ==
    /\ pc[c] = "attempt" /\ request[c] = "getTransaction"
    /\ \/ /\ WellFormedHash(args[c].txHash)
          /\ Continue(c, "getTransactionReceipt") /\ Answered(c, "value")
       \/ /\ WellFormedHash(args[c].txHash)
          /\ Continue(c, "getTransactionReceipt") /\ Answered(c, "nothing")
       \/ (\E e \in ProviderErrors : Fail(c, e))

\* provider.getTransaction(txHash) settles.  A node answers a malformed
\* hash with an error, never with a transaction.
GetTransactionSettles(c) ==
    /\ pc[c] = "attempt" /\ request[c] = "getTransaction"
    /\ \/ /\ WellFormedHash(args[c].txHash)
          /\ Continue(c, "getTransactionReceipt") /\ Answered(c, "value")
       \/ /\ WellFormedHash(args[c].txHash)
          /\ Succeed(c, "null") /\ Answered(c, "nothing")     \* if (!tx) return null
       \/ (\E e \in ProviderErrors : Fail(c, e))

\* mutant of GetTransactionReceiptSettles: no "if (!receipt) return null"
ReceiptSettlesUnchecked(c) ==
    /\ pc[c] = "attempt" /\ request[c] = "getTransactionReceipt"
    /\ \/ Continue(c, "getBlockOfTransaction") /\ Answered(c, "value")
       \/ Continue(c, "getBlockOfTransaction") /\ Answered(c, "nothing")
       \/ (\E e \in ProviderErrors : Fail(c, e))

\* provider.getTransactionReceipt(txHash) settles
GetTransactionReceiptSettles(c) ==
    /\ pc[c] = "attempt" /\ request[c] = "getTransactionReceipt"
    /\ \/ Continue(c, "getBlockOfTransaction") /\ Answered(c, "value")
       \/ Succeed(c, "null") /\ Answered(c, "nothing")        \* if (!receipt) return null
       \/ (\E e \in ProviderErrors : Fail(c, e))

\* provider.getBlock(tx.blockNumber) settles
GetBlockOfTransactionSettles(c) ==
    /\ pc[c] = "attempt" /\ request[c] = "getBlockOfTransaction"
    /\ \/ Succeed(c, "record") /\ Answered(c, "value")
       \/ Succeed(c, "null") /\ Answered(c, "nothing")        \* if (!block) return null
       \/ (\E e \in ProviderErrors : Fail(c, e))

\* --------------------------------- getCurrentBlockNumber, getBlockByNumber

\* mutant of GetBlockNumberSettles: the request goes to this.providers[i]
BlockNumberOfLoopIndex(c) ==
    /\ pc[c] = "attempt" /\ request[c] = "getBlockNumber"
    /\ \/ /\ Succeed(c, "height")
          /\ lastAnswer' = [lastAnswer EXCEPT ![c] = "value"]
          /\ nodeHeights' = [nodeHeights EXCEPT !.last = nodeHeights.chain[i[c]]]
          /\ UNCHANGED <<scan, blocksFetched, expected, missed, search>>
       \/ (\E e \in ProviderErrors : Fail(c, e))

\* provider.getBlockNumber() of getCurrentBlockNumber settles: the value
\* returned is the height that the provider of the attempt reports
GetBlockNumberSettles(c) ==
    /\ pc[c] = "attempt" /\ request[c] = "getBlockNumber"
    /\ \/ /\ Succeed(c, "height")
          /\ lastAnswer' = [lastAnswer EXCEPT ![c] = "value"]
          /\ nodeHeights' = [nodeHeights EXCEPT !.last = nodeHeights.chain[providerIndex[c]]]
          /\ UNCHANGED <<scan, blocksFetched, expected, missed, search>>
       \/ (\E e \in ProviderErrors : Fail(c, e))

\* provider.getBlock(blockNumber) of getBlockByNumber settles
GetBlockSettles(c) ==
    /\ pc[c] = "attempt" /\ request[c] = "getBlock"
    /\ \/ Succeed(c, "record") /\ Answered(c, "value")
       \/ Succeed(c, "null") /\ Answered(c, "nothing")        \* if (!block) return null
       \/ (\E e \in ProviderErrors : Fail(c, e))

\* -------------------------------------------------------------- records

ZeroAddress == "0x0000000000000000000000000000000000000000"

\* mutant of Recipient: a missing recipient becomes the zero address
RecipientZeroAddress(to) ==
    <<[address |-> IF to = "null" THEN ZeroAddress ELSE to]>>

\* to: tx.to ? { address: tx.to } : null
\* (a list of at most one element: the empty list is null)
Recipient(to) == IF to = "null" THEN <<>> ELSE <<[address |-> to]>>

\* A bigint is the list of its hexadecimal digits, most significant first and
\* without leading zeros (0n is the empty list): tx.value is built from the
\* hex quantity of the JSON-RPC answer and has no fixed width.
RECURSIVE Nibbles(_)
Nibbles(k) == IF k = 0 THEN <<>> ELSE Append(Nibbles(k \div 16), k % 16)

RECURSIVE StripZeros(_)
StripZeros(ds) == IF ds # <<>> /\ ds[1] = 0 THEN StripZeros(Tail(ds)) ELSE ds

\* quotient and remainder of the bigint n by ten, by long division
DivMod10(n) ==
    LET step[k \in 0..Len(n)] ==
            IF k = 0 THEN [q |-> <<>>, r |-> 0]
            ELSE LET cur == step[k - 1].r * 16 + n[k]
                 IN  [q |-> Append(step[k - 1].q, cur \div 10), r |-> cur % 10]
    IN  [q |-> StripZeros(step[Len(n)].q), r |-> step[Len(n)].r]

RECURSIVE DecimalDigits(_)
DecimalDigits(n) ==
    IF n = <<>> THEN <<>>
    ELSE Append(DecimalDigits(DivMod10(n).q), DivMod10(n).r)

\* mutant of BigIntToString: the amount passes through a Number, which holds
\* about 52 bits: the digits after the 13th hexadecimal digit are lost
BigIntToStringViaNumber(n) ==
    LET kept == [k \in 1..Len(n) |-> IF k <= 13 THEN n[k] ELSE 0]
    IN  IF n = <<>> THEN <<0>> ELSE DecimalDigits(kept)

\* tx.value.toString(): the decimal digits of the bigint, "0" for 0n
BigIntToString(n) == IF n = <<>> THEN <<0>> ELSE DecimalDigits(n)

\* the amounts of the provider transactions: small ones, 10^18 (1 ETH in wei),
\* 10^18 + 1, 2^53 + 1 and 2^64 - 1
OneEther == <<13, 14, 0, 11, 6, 11, 3, 10, 7, 6, 4, 0, 0, 0, 0>>
Values ==
    { Nibbles(k) : k \in 0..MaxSmallValue }
        \cup { OneEther, [OneEther EXCEPT ![15] = 1],
               <<2, 0, 0, 0, 0, 0, 0, 0, 0, 0, 0, 0, 0, 1>>,
               [k \in 1..16 |-> 15] }

\* tx.gasPrice: null (the empty list), 0n or a price
GasPrices == { <<>>, <<Nibbles(0)>>, <<Nibbles(1000)>> }

\* what getTransaction / getBlock(n, true) deliver, and the receipts
RawTransactions ==
    [hash : {"0xa1"}, from : {"0xAb"}, to : {"null", "0xCd", ZeroAddress},
     value : Values, gasPrice : GasPrices]
Receipts == [status : {0, 1}, gasUsed : {Nibbles(21000)}]

\* the object that getTransactionByHash returns (the fields made of tx and
\* receipt.status)
TransactionRecord(txHash, tx, receipt) ==
    [id |-> txHash,
     hash |-> txHash,
     from |-> [address |-> tx.from],
     to |-> Recipient(tx.to),
     value |-> BigIntToString(tx.value),
     gasPrice |-> IF tx.gasPrice # <<>> /\ tx.gasPrice[1] # <<>>
                  THEN BigIntToString(tx.gasPrice[1]) ELSE <<0>>,
     status |-> IF receipt.status # 0 THEN "1" ELSE "0"]

\* ------------------------------------------------ getTransactionsByAddress

\* mutant of Matches: only the sender is compared
MatchesSenderOnly(tx, address) ==
    /\ tx.from # "string"
    /\ tx.from = address

\* typeof tx !== 'string' && (transaction.from === address || transaction.to === address)
Matches(tx, address) ==
    /\ tx.from # "string"
    /\ (tx.from = address \/ tx.to = address)

\* position of the first entry of body after position p that matches, 0 if none:
\* the inner for loop runs without an await up to the next matching transaction
NextMatch(body, p, address) ==
    LET later == { k \in (p + 1)..Len(body) : Matches(body[k], address) }
    IN  IF later = {} THEN 0 ELSE CHOOSE k \in later : \A m \in later : k <= m

\* the receipt of a transaction of the chain: a transaction without recipient
\* is a contract creation, which failed here; the others succeeded
ReceiptOf(tx) ==
    [status |-> IF tx.to = "null" THEN 0 ELSE 1, gasUsed |-> Nibbles(21000)]

\* the record pushed for a matching transaction in block bn, with its receipt
ScanRecord(tx, bn, receipt) ==
    [hash |-> tx.hash, from |-> tx.from, to |-> Recipient(tx.to), blockNumber |-> bn,
     gasUsed |-> BigIntToString(receipt.gasUsed),
     status |-> IF receipt.status # 0 THEN "1" ELSE "0"]

\* what the scan is to find in block bn: the entries of body whose from or to
\* is the address, in the order of the block
MatchingEntries(body, address, bn) ==
    LET found[k \in 0..Len(body)] ==
            IF k = 0 THEN <<>>
            ELSE IF body[k].from = address \/ body[k].to = address
                 THEN Append(found[k - 1], [tx |-> body[k], blockNumber |-> bn])
                 ELSE found[k - 1]
    IN  found[Len(body)]

\* the entries of es that are not in the set gone
Without(es, gone) ==
    LET kept[k \in 0..Len(es)] ==
            IF k = 0 THEN <<>>
            ELSE IF es[k] \in gone THEN kept[k - 1] ELSE Append(kept[k - 1], es[k])
    IN  kept[Len(es)]

\* mutant of NextBlock: the loop test lacks "transactions.length < limit"
NextBlockIgnoresLimit(c, bn, txs) ==
    IF bn - 1 >= scan[c].startBlock
    THEN /\ scan' = [scan EXCEPT ![c].blockNumber = bn - 1, ![c].block = <<>>,
                                 ![c].pos = 0, ![c].transactions = txs]
         /\ blocksFetched' = [blocksFetched EXCEPT ![c] = blocksFetched[c] + 1]
         /\ Continue(c, "getBlockOfScan")
    ELSE /\ scan' = [scan EXCEPT ![c].blockNumber = bn - 1, ![c].block = <<>>,
                                 ![c].pos = 0, ![c].transactions = txs]
         /\ UNCHANGED blocksFetched
         /\ Succeed(c, "transactions")

\* The outer for loop goes on after block bn with the collected list txs:
\* blockNumber--, the loop test, then either the next getBlock request or
\* "return transactions" to tryProviders.
NextBlock(c, bn, txs) ==
    IF bn - 1 >= scan[c].startBlock /\ Len(txs) < args[c].limit
    THEN /\ scan' = [scan EXCEPT ![c].blockNumber = bn - 1, ![c].block = <<>>,
                                 ![c].pos = 0, ![c].transactions = txs]
         /\ blocksFetched' = [blocksFetched EXCEPT ![c] = blocksFetched[c] + 1]
         /\ Continue(c, "getBlockOfScan")
    ELSE /\ scan' = [scan EXCEPT ![c].blockNumber = bn - 1, ![c].block = <<>>,
                                 ![c].pos = 0, ![c].transactions = txs]
         /\ UNCHANGED blocksFetched
         /\ Succeed(c, "transactions")

\* The inner for loop goes on in block body after position p.
NextTransaction(c, body, p, txs) ==
    LET k == NextMatch(body, p, args[c].address)
    IN  IF k # 0
        THEN /\ scan' = [scan EXCEPT ![c].block = body, ![c].pos = k,
                                     ![c].transactions = txs]
             /\ UNCHANGED blocksFetched
             /\ Continue(c, "getReceiptOfScan")
        ELSE NextBlock(c, scan[c].blockNumber, txs)

\* provider.getBlockNumber() of the scan settles: the window is computed and
\* the outer loop starts with blockNumber = latestBlockNumber
GetBlockNumberOfScanSettles(c, heights) ==
    /\ pc[c] = "attempt" /\ request[c] = "getBlockNumberOfScan"
    /\ \/ \E latestBlockNumber \in heights :
            LET blocksToSearch == Min(ScanWindow, latestBlockNumber)
                startBlock == Max(0, latestBlockNumber - blocksToSearch)
            IN  /\ lastAnswer' = [lastAnswer EXCEPT ![c] = "value"]
                /\ UNCHANGED <<expected, missed, search, nodeHeights>>
                /\ IF latestBlockNumber >= startBlock /\ 0 < args[c].limit
                   THEN /\ scan' = [scan EXCEPT ![c] =
                                [NoScan EXCEPT !.latestBlockNumber = latestBlockNumber,
                                               !.startBlock = startBlock,
                                               !.blockNumber = latestBlockNumber]]
                        /\ blocksFetched' = [blocksFetched EXCEPT ![c] = 1]
                        /\ Continue(c, "getBlockOfScan")
                   ELSE /\ scan' = [scan EXCEPT ![c] =
                                [NoScan EXCEPT !.latestBlockNumber = latestBlockNumber,
                                               !.startBlock = startBlock,
                                               !.blockNumber = latestBlockNumber]]
                        /\ UNCHANGED blocksFetched
                        /\ Succeed(c, "transactions")
       \/ (\E e \in ProviderErrors : Fail(c, e))

\* block bodies an endpoint can return for block bn: the RichDepth newest
\* blocks of a short chain hold transactions, all other blocks are empty
BodiesAt(c, bn) ==
    IF /\ scan[c].latestBlockNumber <= MaxSmallHeight
       /\ bn > scan[c].latestBlockNumber - RichDepth
    THEN IF search.address = "" THEN Bodies ELSE SearchBodies
    ELSE {<<>>}

\* mutant of GetBlockOfScanSettles: no try / catch around the block, a
\* rejected getBlock ends the attempt
BlockErrorAborts(c) ==
    /\ pc[c] = "attempt" /\ request[c] = "getBlockOfScan"
    /\ \/ \E body \in BodiesAt(c, scan[c].blockNumber) :
            /\ lastAnswer' = [lastAnswer EXCEPT ![c] = "value"]
            /\ UNCHANGED nodeHeights
            /\ expected' = [expected EXCEPT ![c] =
                    @ \o MatchingEntries(body, args[c].address, scan[c].blockNumber)]
            /\ UNCHANGED missed
            /\ search' = Seen(body, scan[c].blockNumber)
            /\ NextTransaction(c, body, 0, scan[c].transactions)
       \/ /\ lastAnswer' = [lastAnswer EXCEPT ![c] = "nothing"]
          /\ UNCHANGED nodeHeights
          /\ UNCHANGED <<expected, missed, search>>
          /\ NextBlock(c, scan[c].blockNumber, scan[c].transactions)
       \/ (\E e \in ProviderErrors : Fail(c, e))

\* provider.getBlock(blockNumber, true) of the scan settles
GetBlockOfScanSettles(c) ==
    /\ pc[c] = "attempt" /\ request[c] = "getBlockOfScan"
    /\ \/ \E body \in BodiesAt(c, scan[c].blockNumber) :
            /\ lastAnswer' = [lastAnswer EXCEPT ![c] = "value"]
            /\ UNCHANGED nodeHeights
            /\ expected' = [expected EXCEPT ![c] =
                    @ \o MatchingEntries(body, args[c].address, scan[c].blockNumber)]
            /\ UNCHANGED missed
            /\ search' = Seen(body, scan[c].blockNumber)
            /\ NextTransaction(c, body, 0, scan[c].transactions)
       \/ /\ lastAnswer' = [lastAnswer EXCEPT ![c] = "nothing"]   \* if (!block?.transactions) continue
          /\ UNCHANGED nodeHeights
          /\ UNCHANGED <<expected, missed, search>>
          /\ NextBlock(c, scan[c].blockNumber, scan[c].transactions)
       \/ /\ lastAnswer' = [lastAnswer EXCEPT ![c] = "rejected"]  \* catch (blockError) continue
          /\ UNCHANGED nodeHeights
          /\ UNCHANGED <<expected, missed, search>>
          /\ NextBlock(c, scan[c].blockNumber, scan[c].transactions)

\* mutant of GetReceiptOfScanSettles: without "if (receipt)", a transaction
\* without receipt is pushed with empty receipt fields and counts
GetReceiptOfScanSettlesPushesAnyway(c) ==
    /\ pc[c] = "attempt" /\ request[c] = "getReceiptOfScan"
    /\ LET s == scan[c]
           receipt == ReceiptOf(s.block[s.pos])
           pushed == Append(s.transactions, ScanRecord(s.block[s.pos], s.blockNumber, receipt))
           blank == Append(s.transactions,
                           ScanRecord(s.block[s.pos], s.blockNumber,
                                      [status |-> 0, gasUsed |-> <<>>]))
           rest == SubSeq(s.block, s.pos, Len(s.block))
           lost == MatchingEntries(rest, args[c].address, s.blockNumber)
       IN  \/ /\ lastAnswer' = [lastAnswer EXCEPT ![c] = "value"]
              /\ UNCHANGED <<expected, missed, search, nodeHeights>>
              /\ IF Len(pushed) >= args[c].limit
                 THEN NextBlock(c, s.blockNumber, pushed)
                 ELSE NextTransaction(c, s.block, s.pos, pushed)
           \/ /\ lastAnswer' = [lastAnswer EXCEPT ![c] = "nothing"]
              /\ UNCHANGED nodeHeights
              /\ expected' = [expected EXCEPT ![c] = Without(@, {lost[1]})]
              /\ missed' = [missed EXCEPT ![c] = TRUE]
              /\ UNCHANGED search
              /\ IF Len(blank) >= args[c].limit
                 THEN NextBlock(c, s.blockNumber, blank)
                 ELSE NextTransaction(c, s.block, s.pos, blank)
           \/ /\ lastAnswer' = [lastAnswer EXCEPT ![c] = "rejected"]
              /\ UNCHANGED nodeHeights
              /\ expected' = [expected EXCEPT ![c] = Without(@, {lost[k] : k \in 1..Len(lost)})]
              /\ missed' = [missed EXCEPT ![c] = TRUE]
              /\ UNCHANGED search
              /\ NextBlock(c, s.blockNumber, s.transactions)

\* provider.getTransactionReceipt(transaction.hash) of the scan settles
GetReceiptOfScanSettles(c) ==
    /\ pc[c] = "attempt" /\ request[c] = "getReceiptOfScan"
    /\ LET s == scan[c]
           receipt == ReceiptOf(s.block[s.pos])
           pushed == Append(s.transactions, ScanRecord(s.block[s.pos], s.blockNumber, receipt))
           rest == SubSeq(s.block, s.pos, Len(s.block))
           lost == MatchingEntries(rest, args[c].address, s.blockNumber)
       IN  \/ /\ lastAnswer' = [lastAnswer EXCEPT ![c] = "value"]
              /\ UNCHANGED <<expected, missed, search, nodeHeights>>
              /\ IF Len(pushed) >= args[c].limit
                 THEN NextBlock(c, s.blockNumber, pushed)            \* break
                 ELSE NextTransaction(c, s.block, s.pos, pushed)
           \/ /\ lastAnswer' = [lastAnswer EXCEPT ![c] = "nothing"]  \* if (receipt) is false
              /\ UNCHANGED nodeHeights
              /\ expected' = [expected EXCEPT ![c] = Without(@, {lost[1]})]
              /\ missed' = [missed EXCEPT ![c] = TRUE]
              /\ UNCHANGED search
              /\ NextTransaction(c, s.block, s.pos, s.transactions)
           \/ /\ lastAnswer' = [lastAnswer EXCEPT ![c] = "rejected"] \* catch (blockError) continue
              /\ UNCHANGED nodeHeights
              /\ expected' = [expected EXCEPT ![c] = Without(@, {lost[k] : k \in 1..Len(lost)})]
              /\ missed' = [missed EXCEPT ![c] = TRUE]
              /\ UNCHANGED search
              /\ NextBlock(c, s.blockNumber, s.transactions)

\* ------------------------------------------------------------------ timer

\* mutant of Timeout: operation(provider) is awaited without a timer
TimeoutMissing(c) ==
    /\ pc[c] = "attempt"
    /\ FALSE
    /\ Fail(c, "Request timeout")

\* the 10 s timer of the attempt fires before operation(provider) settled
Timeout(c) ==
    /\ pc[c] = "attempt"
    /\ Fail(c, "Request timeout")

\* ---------------------------------------------------------- specifications

\* some provider request of call c settles or its timer fires
Settles(c) ==
    \/ GetTransactionSettles(c)
    \/ GetTransactionReceiptSettles(c)
    \/ GetBlockOfTransactionSettles(c)
    \/ GetBlockNumberSettles(c)
    \/ GetBlockSettles(c)
    \/ GetBlockNumberOfScanSettles(c, SmallHeights)
    \/ GetBlockOfScanSettles(c)
    \/ GetReceiptOfScanSettles(c)
    \/ Timeout(c)

Next ==
    \/ \E h \in TxHashes :
          Call(Caller, "getTransactionByHash", [NoArgs EXCEPT !.txHash = h])
    \/ \E a \in Addresses, l \in Limits :
          Call(Caller, "getTransactionsByAddress", [NoArgs EXCEPT !.address = a, !.limit = l])
    \/ Call(Caller, "getCurrentBlockNumber", NoArgs)
    \/ Call(Caller, "getBlockByNumber", NoArgs)
    \/ GetTransactionSettles(Caller)
    \/ GetTransactionReceiptSettles(Caller)
    \/ GetBlockOfTransactionSettles(Caller)
    \/ GetBlockNumberSettles(Caller)
    \/ GetBlockSettles(Caller)
    \/ GetBlockNumberOfScanSettles(Caller, SmallHeights)
    \/ GetBlockOfScanSettles(Caller)
    \/ GetReceiptOfScanSettles(Caller)
    \/ Timeout(Caller)

Spec == Init /\ [][Next]_vars

\* setTimeout callbacks run: the timer of a pending attempt fires unless the
\* attempt settles first.  Nothing makes a provider request settle.
SpecFair == Spec /\ WF_vars(Timeout(Caller))

\* the service as configured (all of SEPOLIA_RPC_URLS), scanning long chains
InitAsConfigured ==
    /\ InitService
    /\ late = NoLate
    /\ search = NoSearch
    /\ numProviders = NumUrls
    /\ environment = "any"
    /\ healthy = {}
    /\ nodeHeights = FlatChains

InitWindow ==
    /\ InitAsConfigured
    /\ OthersIdle

NextWindow ==
    \/ \E l \in Limits :
          Call(Caller, "getTransactionsByAddress", [NoArgs EXCEPT !.limit = l])
    \/ GetBlockNumberOfScanSettles(Caller, SmallHeights \cup WindowHeights)
    \/ GetBlockOfScanSettles(Caller)
    \/ GetReceiptOfScanSettles(Caller)
    \/ Timeout(Caller)

SpecWindow == InitWindow /\ [][NextWindow]_vars

\* An address search through AddressQuery: handleSearch passes the typed
\* address in lower case and the limit 20 to the service; short chains.
InitAddress ==
    /\ InitService
    /\ late = NoLate
    /\ search \in [address : EnteredAddresses, found : {{}}]
    /\ environment = "any"
    /\ healthy = {}
    /\ nodeHeights = FlatChains
    /\ OthersIdle

\* handleSearch of AddressQuery up to its await
AddressHandleSearch ==
    /\ pc[Caller] \in {"idle", "done", "failed"}
    /\ Call(Caller, "getTransactionsByAddress",
            [NoArgs EXCEPT !.address = ToLowerCase(search.address), !.limit = SearchLimit])

NextAddress ==
    \/ AddressHandleSearch
    \/ GetBlockNumberOfScanSettles(Caller, SmallHeights)
    \/ GetBlockOfScanSettles(Caller)
    \/ GetReceiptOfScanSettles(Caller)
    \/ Timeout(Caller)

SpecAddress == InitAddress /\ [][NextAddress]_vars

\* What the ended attempts left behind.  One caller; the operations of one
\* and of three provider requests.
InitLate ==
    /\ InitService
    /\ late = [NoLate EXCEPT !.followed = TRUE]
    /\ search = NoSearch
    /\ environment = "any"
    /\ healthy = {}
    /\ nodeHeights = FlatChains
    /\ OthersIdle

\* an operation(provider) left running settles and its result is recorded
\* as a success
LateOperationRecordsSuccess(e) ==
    /\ e \in late.operations
    /\ late' = [late EXCEPT !.operations = @ \ {e}, !.settled = TRUE]
    /\ currentProviderIndex' = e
    /\ lastGood' = e
    /\ UNCHANGED <<numProviders, pc, operation, args, i, providerIndex,
                   request, lastError, result, scan, environment, healthy,
                   startIndex, attempts, lastAnswer, blocksFetched,
                   expected, missed, search, contacted, nodeHeights, otherVars>>

\* an operation(provider) left running on endpoint e resolves or rejects:
\* the promise of Promise.race was rejected by the timer before and takes
\* no other outcome, so nothing after the await runs again
LateOperationSettles(e) ==
    /\ e \in late.operations
    /\ late' = [late EXCEPT !.operations = @ \ {e}, !.settled = TRUE]
    /\ UNCHANGED <<numProviders, currentProviderIndex, pc, operation, args, i,
                   providerIndex, request, lastError, result, scan, environment,
                   healthy, startIndex, attempts, lastAnswer, blocksFetched,
                   lastGood, expected, missed, search, contacted, nodeHeights, otherVars>>

\* a timer left set fires: reject() on the promise of a race that is over
LateTimerFires ==
    /\ late.timer
    /\ late' = [late EXCEPT !.timer = FALSE, !.fired = TRUE]
    /\ UNCHANGED <<numProviders, currentProviderIndex, pc, operation, args, i,
                   providerIndex, request, lastError, result, scan, environment,
                   healthy, startIndex, attempts, lastAnswer, blocksFetched,
                   lastGood, expected, missed, search, contacted, nodeHeights, otherVars>>

NextLate ==
    \/ \E h \in TxHashes :
          Call(Caller, "getTransactionByHash", [NoArgs EXCEPT !.txHash = h])
    \/ Call(Caller, "getCurrentBlockNumber", NoArgs)
    \/ GetTransactionSettles(Caller)
    \/ GetTransactionReceiptSettles(Caller)
    \/ GetBlockOfTransactionSettles(Caller)
    \/ GetBlockNumberSettles(Caller)
    \/ Timeout(Caller)
    \/ \E e \in 0..(NumUrls - 1) : LateOperationSettles(e)
    \/ LateTimerFires

SpecLate == InitLate /\ [][NextLate]_vars

\* Calls in flight at once.  The calls meet only in currentProviderIndex,
\* which is read where an attempt starts and written where one succeeds; the
\* requests inside an operation and the kind of failure (error or timer) do
\* not touch it, so the callers use the one-request operation
\* getCurrentBlockNumber, whose attempts are answered or rejected.
NextConcurrent ==
    \E c \in Calls :
        \/ Call(c, "getCurrentBlockNumber", NoArgs)
        \/ GetBlockNumberSettles(c)

SpecConcurrent == Init /\ [][NextConcurrent]_vars

SpecStable == InitStable /\ [][NextConcurrent]_vars

\* The endpoints are nodes of their own: each reports its own height, which
\* grows as the node learns of blocks and never drops (reorganisations
\* aside).  One caller asks for the height again and again.
InitHeights ==
    /\ InitService
    /\ late = NoLate
    /\ search = NoSearch
    /\ environment = "any"
    /\ healthy = {}
    /\ OthersIdle
    /\ \E chain \in [0..(NumUrls - 1) -> SmallHeights] :
          /\ \A e \in numProviders..(NumUrls - 1) : chain[e] = 0
          /\ nodeHeights = [chain |-> chain, last |-> 0]

\* endpoint e learns of a new block
NewBlock(e) ==
    /\ e < numProviders
    /\ nodeHeights.chain[e] < MaxSmallHeight
    /\ nodeHeights' = [nodeHeights EXCEPT !.chain[e] = @ + 1]
    /\ UNCHANGED <<numProviders, currentProviderIndex, pc, operation, args, i,
                   providerIndex, request, lastError, result, scan, environment,
                   healthy, startIndex, attempts, lastAnswer, blocksFetched,
                   lastGood, expected, missed, search, contacted, late, otherVars>>

NextHeights ==
    \/ Call(Caller, "getCurrentBlockNumber", NoArgs)
    \/ GetBlockNumberSettles(Caller)
    \/ \E e \in 0..(NumUrls - 1) : NewBlock(e)

SpecHeights == InitHeights /\ [][NextHeights]_vars

\* The records by themselves: a provider transaction with its receipt is
\* made into the record of getTransactionByHash or into the record of the scan.
InitRecord ==
    /\ InitAsConfigured
    /\ \E tx \in RawTransactions, receipt \in Receipts :
          norm = [stage |-> "raw", tx |-> tx, receipt |-> receipt, record |-> <<>>]
    /\ ui = Mounted("TransactionQuery")
    /\ hex = NoHex
    /\ wallet = WalletMounted
    /\ contract = Deployed

\* "return { id: txHash, ... }" of getTransactionByHash
NormalizeByHash ==
    /\ norm.stage = "raw"
    /\ norm' = [norm EXCEPT !.stage = "byHash",
                            !.record = <<TransactionRecord(norm.tx.hash, norm.tx, norm.receipt)>>]
    /\ UNCHANGED <<serviceVars, ui, hex, wallet, contract>>

\* "transactions.push({ ... })" of the scan, for a transaction of block bn
NormalizeScanned(bn) ==
    /\ norm.stage = "raw"
    /\ norm' = [norm EXCEPT !.stage = "scanned",
                            !.record = <<ScanRecord(norm.tx, bn, norm.receipt)>>]
    /\ UNCHANGED <<serviceVars, ui, hex, wallet, contract>>

NextRecord ==
    \/ NormalizeByHash
    \/ \E bn \in SmallHeights : NormalizeScanned(bn)

SpecRecord == InitRecord /\ [][NextRecord]_vars

\* ------------------------------------------------- the query components
\* TransactionQuery.tsx and AddressQuery.tsx: React state, the handlers and
\* what is rendered.  The service is its outcomes here: a result, nothing
\* (null / an empty list) or the error of tryProviders.

\* the texts shown (a message is a list of strings, the empty list is ''):
TxNotFoundError == <<"tx not found, check the hash">>
    \* 未找到该交易，请检查交易哈希是否正确
TxNotFoundNotice == <<"no transaction record found, check the hash or wait for the Subgraph">>
    \* 未找到交易记录，请检查交易哈希是否正确或等待 Subgraph 同步。
AddrNotFoundError == <<"no transactions found for this address">>
    \* 未找到该地址的交易记录，可能该地址没有交易或需要搜索更多区块
AddrNotFoundNotice == <<"no transaction record found">>
    \* ⚠️ 未找到交易记录
GraphErrorMessage == <<"graph error">>

\* the messages of the errors that tryProviders throws
FailureMessages == { FailureMessage(e) : e \in ProviderErrors \cup {"Request timeout"} }

\* const loading / error / data of TransactionQuery, by data source
Loading(u) == IF u.dataSource = "graph" THEN u.graph = "loading" ELSE u.loading
ErrorShown(u) ==
    IF u.dataSource = "graph"
    THEN (IF u.graph = "error" THEN GraphErrorMessage ELSE NoMessage)
    ELSE u.error
HasTransaction(u) ==
    IF u.dataSource = "graph" THEN u.graph = "record" ELSE u.data = "record"

\* the messages on the screen in state u
Visible(u) ==
    IF u.component = "TransactionQuery"
    THEN (IF ErrorShown(u) # NoMessage THEN {ErrorShown(u)} ELSE {})
           \cup (IF u.searchHash # "" /\ ~Loading(u) /\ ~HasTransaction(u)
                 THEN {TxNotFoundNotice} ELSE {})
    ELSE (IF u.error # NoMessage THEN {u.error} ELSE {})
           \cup (IF u.searchHash # "" /\ ~u.loading /\ u.data = "none" /\ u.error = NoMessage
                 THEN {AddrNotFoundNotice} ELSE {})

InitUI ==
    /\ InitAsConfigured
    /\ norm = NoNorm
    /\ hex = NoHex
    /\ wallet = WalletMounted
    /\ contract = Deployed
    /\ \E component \in Components : ui = Mounted(component)

\* the hash of a confirmed transfer, as WalletTransfer hands it to App
TransferHashes == {"0xtransfer"}

\* the effect of TransactionQuery on [initialTxHash, searchHash, onHashUsed],
\* applied to the state u of the component; onHashUsed is
\* "() => setPendingTxHash('')" of App.  With 'graph' selected the query of
\* useTransactionQuery starts, as searchHash is no longer empty.
AutoFill(u) ==
    IF u.initialTxHash # "" /\ u.initialTxHash # u.searchHash
    THEN [u EXCEPT !.input = u.initialTxHash,
                   !.searchHash = u.initialTxHash,
                   !.initialTxHash = "",
                   !.graph = IF u.dataSource = "graph" THEN "loading" ELSE @]
    ELSE u

\* handleTransferSuccess of App: pendingTxHash is set and the tab changes to
\* 'transaction', which mounts a new TransactionQuery with that property.
\* React runs the effects of the mount before it handles another event.
HandleTransferSuccess(txHash) ==
    /\ ui' = AutoFill([Mounted("TransactionQuery") EXCEPT !.initialTxHash = txHash])
    /\ UNCHANGED <<serviceVars, norm, hex, wallet, contract>>

\* onChange of the input field
TypeInput(text) ==
    /\ ui.input # text
    /\ ui' = [ui EXCEPT !.input = text]
    /\ UNCHANGED <<serviceVars, norm, hex, wallet, contract>>

\* handleSearch of TransactionQuery up to the await; the button that submits
\* is disabled while loading, so one RPC query is in flight at a time
TxHandleSearch ==
    /\ ui.component = "TransactionQuery" /\ ui.input # "" /\ ~Loading(ui)
    /\ ui' = IF ui.dataSource = "rpc"
             THEN [ui EXCEPT !.searchHash = ToLowerCase(ui.input), !.loading = TRUE,
                             !.error = NoMessage, !.data = "none", !.pending = TRUE,
                             !.outcome = "none", !.cleared = FALSE]
             ELSE [ui EXCEPT !.searchHash = ToLowerCase(ui.input), !.graph = "loading",
                             !.outcome = "none", !.cleared = FALSE]
    /\ UNCHANGED <<serviceVars, norm, hex, wallet, contract>>

\* handleSearch of TransactionQuery with setRpcLoading(false) at the end of
\* the try block, not in a finally
TxSearchSettlesWithoutFinally ==
    /\ ui.component = "TransactionQuery" /\ ui.pending
    /\ \/ ui' = [ui EXCEPT !.data = "record", !.loading = FALSE,
                           !.pending = FALSE, !.outcome = "found"]
       \/ ui' = [ui EXCEPT !.data = "none", !.error = TxNotFoundError, !.loading = FALSE,
                           !.pending = FALSE, !.outcome = "nothing"]
       \/ \E m \in FailureMessages :
            ui' = [ui EXCEPT !.error = m, !.pending = FALSE, !.outcome = "unreachable"]
    /\ UNCHANGED <<serviceVars, norm, hex, wallet, contract>>

\* handleSearch of TransactionQuery after the await: try, catch and finally
TxSearchSettles ==
    /\ ui.component = "TransactionQuery" /\ ui.pending
    /\ \/ ui' = [ui EXCEPT !.data = "record", !.loading = FALSE,
                           !.pending = FALSE, !.outcome = "found"]
       \/ ui' = [ui EXCEPT !.data = "none", !.error = TxNotFoundError, !.loading = FALSE,
                           !.pending = FALSE, !.outcome = "nothing"]
       \/ \E m \in FailureMessages :
            ui' = [ui EXCEPT !.error = m, !.loading = FALSE,
                             !.pending = FALSE, !.outcome = "unreachable"]
    /\ UNCHANGED <<serviceVars, norm, hex, wallet, contract>>

\* handleClear of TransactionQuery; its button is there when the input or
\* searchHash holds a text
TxHandleClear ==
    /\ ui.component = "TransactionQuery"
    /\ ui.input # "" \/ ui.searchHash # ""
    /\ ui' = [ui EXCEPT !.input = "", !.searchHash = "", !.data = "none",
                        !.error = NoMessage, !.graph = "idle", !.outcome = "none",
                        !.cleared = TRUE]
    /\ UNCHANGED <<serviceVars, norm, hex, wallet, contract>>

\* handleDataSourceChange of TransactionQuery
TxHandleDataSourceChange(source) ==
    /\ ui.component = "TransactionQuery"
    /\ ui' = [ui EXCEPT !.dataSource = source, !.data = "none", !.error = NoMessage,
                        !.searchHash = "", !.graph = "idle", !.outcome = "none",
                        !.cleared = TRUE]
    /\ UNCHANGED <<serviceVars, norm, hex, wallet, contract>>

\* the query of useTransactionQuery ends: an error, a record or no record
GraphSettles ==
    /\ ui.graph = "loading"
    /\ \E g \in {"error", "record", "empty"} : ui' = [ui EXCEPT !.graph = g]
    /\ UNCHANGED <<serviceVars, norm, hex, wallet, contract>>

\* handleSearch of AddressQuery up to the await
AddrHandleSearch ==
    /\ ui.component = "AddressQuery" /\ ui.input # "" /\ ~ui.pending
    /\ ui' = [ui EXCEPT !.loading = TRUE, !.error = NoMessage, !.data = "none",
                        !.searchHash = ToLowerCase(ui.input), !.pending = TRUE,
                        !.outcome = "none"]
    /\ UNCHANGED <<serviceVars, norm, hex, wallet, contract>>

\* handleSearch of AddressQuery after the await
AddrSearchSettles ==
    /\ ui.component = "AddressQuery" /\ ui.pending
    /\ \/ ui' = [ui EXCEPT !.data = "list", !.loading = FALSE,
                           !.pending = FALSE, !.outcome = "found"]
       \/ ui' = [ui EXCEPT !.data = "none", !.error = AddrNotFoundError, !.loading = FALSE,
                           !.pending = FALSE, !.outcome = "nothing"]
       \/ \E m \in FailureMessages :
            ui' = [ui EXCEPT !.error = m, !.loading = FALSE,
                             !.pending = FALSE, !.outcome = "unreachable"]
    /\ UNCHANGED <<serviceVars, norm, hex, wallet, contract>>

\* handleClear of AddressQuery
AddrHandleClear ==
    /\ ui.component = "AddressQuery"
    /\ ui' = [ui EXCEPT !.input = "", !.searchHash = "", !.data = "none",
                        !.error = NoMessage, !.outcome = "none"]
    /\ UNCHANGED <<serviceVars, norm, hex, wallet, contract>>

NextUI ==
    \/ \E txHash \in TransferHashes : HandleTransferSuccess(txHash)
    \/ \E text \in {"", "0xInput"} : TypeInput(text)
    \/ TxHandleSearch
    \/ TxSearchSettles
    \/ TxHandleClear
    \/ \E source \in {"graph", "rpc"} : TxHandleDataSourceChange(source)
    \/ GraphSettles
    \/ AddrHandleSearch
    \/ AddrSearchSettles
    \/ AddrHandleClear

SpecUI == InitUI /\ [][NextUI]_vars

\* ---------------------------------------------------------------- hexUtils
\* utils/hexUtils.ts.  A string is the list of its UTF-16 code units; a
\* hexadecimal text is the list of its characters, 0..15 for the digits and
\* LetterX for the 'x' of the prefix.  The texts here hold no white space, so
\* trim() changes nothing.

LetterX == 16
Prefix == <<0, LetterX>>

\* the characters of the strings: H, 世, U+FFFF and 🌍 (U+1F30D)
CodePoints == {72, 19990, 65535, 127757}

\* String.fromCodePoint(cp): one code unit, or a surrogate pair above 0xFFFF
FromCodePoint(cp) ==
    IF cp > 65535
    THEN << 55296 + ((cp - 65536) \div 1024), 56320 + ((cp - 65536) % 1024) >>
    ELSE << cp >>

\* the strings of 1..MaxChars characters
RECURSIVE StringsOf(_)
StringsOf(n) ==
    IF n = 0 THEN {<<>>}
    ELSE { str \o FromCodePoint(cp) : str \in StringsOf(n - 1), cp \in CodePoints }
Strings == UNION { StringsOf(n) : n \in 1..MaxChars }

\* str.codePointAt(k), k counted from 1
CodePointAt(str, k) ==
    IF /\ str[k] \in 55296..56319 /\ k < Len(str) /\ str[k + 1] \in 56320..57343
    THEN 65536 + (str[k] - 55296) * 1024 + (str[k + 1] - 56320)
    ELSE str[k]

\* n.toString(16)
RECURSIVE ToString16(_)
ToString16(n) ==
    IF n < 16 THEN <<n>> ELSE Append(ToString16(n \div 16), n % 16)

\* text.padStart(4, '0')
PadStart4(text) ==
    IF Len(text) >= 4 THEN text ELSE [k \in 1..(4 - Len(text)) |-> 0] \o text

\* the loop of str2hex from position k on
RECURSIVE Str2hexFrom(_, _)
Str2hexFrom(str, k) ==
    IF k > Len(str) THEN <<>>
    ELSE LET codePoint == CodePointAt(str, k)
             next == IF codePoint > 65535 THEN k + 2 ELSE k + 1
         IN  PadStart4(ToString16(codePoint)) \o Str2hexFrom(str, next)

str2hex(str) == IF str = <<>> THEN Prefix ELSE Prefix \o Str2hexFrom(str, 1)

\* "if (rawStr.startsWith('0x')) rawStr = rawStr.slice(2)"
RawStr(text) ==
    IF Len(text) >= 2 /\ SubSeq(text, 1, 2) = Prefix
    THEN SubSeq(text, 3, Len(text)) ELSE text

\* parseInt(hexCode, 16) of four hexadecimal digits
ParseInt16(hexCode) ==
    ((hexCode[1] * 16 + hexCode[2]) * 16 + hexCode[3]) * 16 + hexCode[4]

\* the loop of hex2str over the groups of four digits, from group g on
RECURSIVE Hex2strFrom(_, _)
Hex2strFrom(rawStr, g) ==
    IF 4 * g > Len(rawStr) THEN <<>>
    ELSE FromCodePoint(ParseInt16(SubSeq(rawStr, 4 * g - 3, 4 * g)))
         \o Hex2strFrom(rawStr, g + 1)

\* hex2str: the decoded string, or thrown when the length is no multiple of 4.
\* The texts decoded here are encodings made by str2hex, all digits after the
\* prefix, so that no group of four parses to NaN.
hex2str(text) ==
    LET rawStr == RawStr(text)
    IN  IF Len(rawStr) % 4 # 0
        THEN [thrown |-> TRUE, str |-> <<>>]
        ELSE [thrown |-> FALSE, str |-> Hex2strFrom(rawStr, 1)]

\* isValidHex
isValidHex(text) ==
    /\ text # <<>>
    /\ Len(RawStr(text)) % 4 = 0
    /\ \A k \in 1..Len(RawStr(text)) : RawStr(text)[k] \in 0..15

InitHex ==
    /\ InitAsConfigured
    /\ norm = NoNorm
    /\ ui = Mounted("TransactionQuery")
    /\ \E str \in Strings : hex = [NoHex EXCEPT !.stage = "input", !.str = str]
    /\ wallet = WalletMounted
    /\ contract = Deployed

\* str2hex is applied to the string
Encode ==
    /\ hex.stage = "input"
    /\ hex' = [hex EXCEPT !.stage = "encoded", !.encoded = str2hex(hex.str)]
    /\ UNCHANGED <<serviceVars, norm, ui, wallet, contract>>

\* hex2str is applied to the encoding
Decode ==
    /\ hex.stage = "encoded" /\ "hex2str" \notin hex.called
    /\ hex' = [hex EXCEPT !.decoded = hex2str(hex.encoded).str,
                          !.thrown = hex2str(hex.encoded).thrown,
                          !.called = @ \cup {"hex2str"}]
    /\ UNCHANGED <<serviceVars, norm, ui, wallet, contract>>

\* isValidHex is applied to the encoding
Validate ==
    /\ hex.stage = "encoded" /\ "isValidHex" \notin hex.called
    /\ hex' = [hex EXCEPT !.valid = isValidHex(hex.encoded),
                          !.called = @ \cup {"isValidHex"}]
    /\ UNCHANGED <<serviceVars, norm, ui, wallet, contract>>

NextHex == Encode \/ Decode \/ Validate

SpecHex == InitHex /\ [][NextHex]_vars

\* ---------------------------------------------------------- WalletTransfer
\* WalletTransfer (unnamed/part_004): the form, isTransferring and the two
\* wagmi hooks.  sendTransaction of useSendTransaction starts the mutation
\* and returns; a failed submission is reported in txError, not thrown.

\* what can be typed as the amount: nothing, a decimal number, a text that
\* parseFloat reads as a number and parseEther rejects, more than the balance
Amounts == {"", "0.1", "1abc", "9"}

\* parseFloat(amt) in tenths of an ether; 0 stands for NaN
ParseFloat(amt) ==
    CASE amt = "0.1" -> 1
      [] amt = "1abc" -> 10
      [] amt = "9" -> 90
      [] OTHER -> 0

\* the balance of the connected account, in tenths of an ether
Balance == 10

\* parseEther(amount) throws on a text that is no decimal number
ParseEtherThrows(amt) == amt \notin {"0.1", "9"}

isValidAddress(addr) == addr = "0xRecipient"
isValidAmount(amt) == ParseFloat(amt) > 0

isTxPending(w) == w.send = "pending"
isConfirming(w) == w.receipt = "loading"
isConfirmed(w) == w.receipt = "success"

\* const canTransfer: the send button is enabled
canTransfer(w) ==
    /\ w.isConnected
    /\ isValidAddress(w.toAddress)
    /\ isValidAmount(w.amount)
    /\ ParseFloat(w.amount) <= Balance
    /\ ~isTxPending(w)
    /\ ~isConfirming(w)
    /\ ~w.isTransferring

InitWallet ==
    /\ InitAsConfigured
    /\ norm = NoNorm
    /\ ui = Mounted("TransactionQuery")
    /\ hex = NoHex
    /\ wallet = WalletMounted
    /\ contract = Deployed

\* handleConnect / disconnect
SetConnected(connected) ==
    /\ wallet.isConnected # connected
    /\ wallet' = [wallet EXCEPT !.isConnected = connected]
    /\ UNCHANGED <<serviceVars, norm, ui, hex, contract>>

\* onChange of the three inputs
SetToAddress(addr) ==
    /\ wallet.toAddress # addr
    /\ wallet' = [wallet EXCEPT !.toAddress = addr]
    /\ UNCHANGED <<serviceVars, norm, ui, hex, contract>>

SetAmount(amt) ==
    /\ wallet.amount # amt
    /\ wallet' = [wallet EXCEPT !.amount = amt]
    /\ UNCHANGED <<serviceVars, norm, ui, hex, contract>>

SetMessage(text) ==
    /\ wallet.message # text
    /\ wallet' = [wallet EXCEPT !.message = text]
    /\ UNCHANGED <<serviceVars, norm, ui, hex, contract>>

\* handleTransfer, called by the send button (disabled unless canTransfer):
\* setIsTransferring(true), then parseEther throws into the catch, or
\* sendTransaction starts a new submission, which forgets the last one
handleTransfer ==
    /\ canTransfer(wallet)
    /\ wallet' = IF ParseEtherThrows(wallet.amount)
                 THEN [wallet EXCEPT !.isTransferring = FALSE]
                 ELSE [wallet EXCEPT !.isTransferring = TRUE,
                                     !.send = "pending", !.receipt = "idle"]
    /\ UNCHANGED <<serviceVars, norm, ui, hex, contract>>

\* the wallet answers: the transaction is submitted (txHash is set and the
\* wait for the receipt starts) or the user rejects it (txError is set)
SendSettles ==
    /\ wallet.send = "pending"
    /\ \/ wallet' = [wallet EXCEPT !.send = "success", !.receipt = "loading"]
       \/ wallet' = [wallet EXCEPT !.send = "error"]
    /\ UNCHANGED <<serviceVars, norm, ui, hex, contract>>

\* the wait for the receipt ends.  With isConfirmed the effect on
\* [isConfirmed, txHash, onTransactionSuccess] runs: the state is reset and
\* handleTransferSuccess of App changes the tab to 'transaction'.
\* Otherwise receiptError is set.
ReceiptSettles ==
    /\ wallet.receipt = "loading"
    /\ \/ /\ wallet' = [wallet EXCEPT !.receipt = "success", !.isTransferring = FALSE,
                                       !.toAddress = "", !.amount = "", !.message = "",
                                       !.notified = 1]
          /\ \E txHash \in TransferHashes :
                ui' = AutoFill([Mounted("TransactionQuery") EXCEPT !.initialTxHash = txHash])
       \/ /\ wallet' = [wallet EXCEPT !.receipt = "error"]
          /\ UNCHANGED ui
    /\ UNCHANGED <<serviceVars, norm, hex, contract>>

\* the tab 'wallet' is chosen again after a transfer: WalletTransfer is
\* mounted anew, the connection of the account is kept
WalletTab ==
    /\ wallet.notified = 1
    /\ wallet' = [WalletMounted EXCEPT !.isConnected = wallet.isConnected]
    /\ UNCHANGED <<serviceVars, norm, ui, hex, contract>>

NextWallet ==
    \/ \E connected \in BOOLEAN : SetConnected(connected)
    \/ \E addr \in {"", "0xRecipient"} : SetToAddress(addr)
    \/ \E amt \in Amounts : SetAmount(amt)
    \/ \E text \in {"", "hi"} : SetMessage(text)
    \/ handleTransfer
    \/ SendSettles
    \/ ReceiptSettles
    \/ WalletTab

SpecWallet == InitWallet /\ [][NextWallet]_vars

\* the wallet and the network answer in the end
SpecWalletFair ==
    SpecWallet /\ WF_vars(SendSettles) /\ WF_vars(ReceiptSettles)

\* ------------------------------------------------- SimpleTransferContract
\* SimpleTransferContract (unnamed/part_000).  A call is a transaction: it
\* runs to its end or reverts, and a revert undoes all it wrote and logged.

Recipients == {ZeroAddress, "0xCd"}
TransferValues == {0, 1}
Messages == {"hi"}
Blocks == 1..MaxBlock

\* the identifiers that keccak256 can give; few, so that two records can
\* get the same one, the case that line 141 tests
IdSpace == 4

AccountNumber(account) ==
    CASE account = "0xAb" -> 1
      [] account = "0xCd" -> 2
      [] OTHER -> 0

\* keccak256(abi.encodePacked(msg.sender, to, value, block.timestamp,
\* totalRecords, blockhash(block.number - 1))); timestamp and hash of the
\* previous block are given by the block
Keccak256(sender, to, value, block, total) ==
    (AccountNumber(sender) + 2 * AccountNumber(to) + value + 3 * block + total) % IdSpace

\* recordTransfer without "userRecordCount[msg.sender]++"
recordTransferCountsTotalOnly(c, sender, to, value, message, block) ==
    LET recordId == Keccak256(sender, to, value, block, c.totalRecords)
    IN  IF to = ZeroAddress THEN [reverted |-> <<"InvalidRecipientAddress">>, c |-> c]
        ELSE IF value = 0 THEN [reverted |-> <<"InvalidValue">>, c |-> c]
        ELSE IF recordId \in c.recordExists
             THEN [reverted |-> <<"RecordAlreadyExists">>, c |-> c]
        ELSE [reverted |-> <<>>,
              c |-> [c EXCEPT !.totalRecords = @ + 1,
                              !.recordExists = @ \cup {recordId},
                              !.events = Append(@, [from |-> sender, to |-> to,
                                                    value |-> value, timestamp |-> block,
                                                    message |-> message,
                                                    recordId |-> recordId])]]

\* recordTransfer run on the storage and log c: the error it reverts with
\* (none: the empty list), and the storage and log it leaves if it does not
recordTransfer(c, sender, to, value, message, block) ==
    LET recordId == Keccak256(sender, to, value, block, c.totalRecords)
    IN  IF to = ZeroAddress THEN [reverted |-> <<"InvalidRecipientAddress">>, c |-> c]
        ELSE IF value = 0 THEN [reverted |-> <<"InvalidValue">>, c |-> c]
        ELSE IF recordId \in c.recordExists
             THEN [reverted |-> <<"RecordAlreadyExists">>, c |-> c]
        ELSE [reverted |-> <<>>,
              c |-> [c EXCEPT !.totalRecords = @ + 1,
                              !.userRecordCount[sender] = @ + 1,
                              !.recordExists = @ \cup {recordId},
                              !.events = Append(@, [from |-> sender, to |-> to,
                                                    value |-> value, timestamp |-> block,
                                                    message |-> message,
                                                    recordId |-> recordId])]]

\* the loop of batchRecordTransfer from element k on
RECURSIVE BatchFrom(_, _, _, _, _, _, _)
BatchFrom(c, sender, recipients, values, messages, block, k) ==
    IF k > Len(recipients) THEN [reverted |-> <<>>, c |-> c]
    ELSE LET one == recordTransfer(c, sender, recipients[k], values[k], messages[k], block)
         IN  IF one.reverted # <<>> THEN one
             ELSE BatchFrom(one.c, sender, recipients, values, messages, block, k + 1)

batchRecordTransfer(c, sender, recipients, values, messages, block) ==
    IF Len(recipients) # Len(values) \/ Len(recipients) # Len(messages)
    THEN [reverted |-> <<"ArrayLengthMismatch">>, c |-> c]
    ELSE BatchFrom(c, sender, recipients, values, messages, block, 1)

\* the arrays of up to MaxBatch elements
ArraysOf(S) == UNION { [1..n -> S] : n \in 0..MaxBatch }

InitContract ==
    /\ InitAsConfigured
    /\ norm = NoNorm
    /\ ui = Mounted("TransactionQuery")
    /\ hex = NoHex
    /\ wallet = WalletMounted
    /\ contract = Deployed

\* a revert that keeps what was written and logged before it
MinedKeepsWrites(call) == call.c

\* the storage and log after a transaction: those left by the call, or those
\* before it when it reverted
Mined(call) == IF call.reverted # <<>> THEN contract ELSE call.c

\* some element of the arrays is a zero recipient or a zero value, or the
\* arrays differ in length
InvalidArguments(recipients, values, messages) ==
    \/ Len(recipients) # Len(values) \/ Len(recipients) # Len(messages)
    \/ \E k \in 1..Len(recipients) : recipients[k] = ZeroAddress
    \/ \E k \in 1..Len(values) : values[k] = 0

\* a transaction that calls recordTransfer, mined in a block not before the
\* block of the last transaction
RecordTransferCall(sender, to, value, message, block) ==
    /\ contract.totalRecords < MaxRecords
    /\ block >= contract.last.block
    /\ LET call == recordTransfer(contract, sender, to, value, message, block)
       IN  contract' = [Mined(call) EXCEPT !.last =
                          [op |-> "recordTransfer", sender |-> sender, length |-> 1,
                           invalid |-> InvalidArguments(<<to>>, <<value>>, <<message>>),
                           block |-> block, reverted |-> call.reverted]]
    /\ UNCHANGED <<serviceVars, norm, ui, hex, wallet>>

\* a transaction that calls batchRecordTransfer
BatchRecordTransferCall(sender, recipients, values, messages, block) ==
    /\ contract.totalRecords < MaxRecords
    /\ block >= contract.last.block
    /\ LET call == batchRecordTransfer(contract, sender, recipients, values, messages, block)
       IN  contract' = [Mined(call) EXCEPT !.last =
                          [op |-> "batchRecordTransfer", sender |-> sender,
                           length |-> Len(recipients),
                           invalid |-> InvalidArguments(recipients, values, messages),
                           block |-> block, reverted |-> call.reverted]]
    /\ UNCHANGED <<serviceVars, norm, ui, hex, wallet>>

NextContract ==
    \/ \E sender \in Senders, to \in Recipients, value \in TransferValues,
          message \in Messages, block \in Blocks :
            RecordTransferCall(sender, to, value, message, block)
    \/ \E sender \in Senders, recipients \in ArraysOf(Recipients),
          values \in ArraysOf(TransferValues), messages \in ArraysOf(Messages),
          block \in Blocks :
            BatchRecordTransferCall(sender, recipients, values, messages, block)

SpecContract == InitContract /\ [][NextContract]_vars

\* ------------------------------------------------------------------ claims

Terminal(c) == pc[c] \in {"done", "failed"}

\* C1: when the attempt at position k of the rotation (k = i, counted from the
\* start of the call) is the first to succeed, exactly k attempts precede it,
\* the endpoint is the k-th of the rotation, it becomes currentProviderIndex,
\* and the call makes no attempt after it.
C1_FirstSuccessEndsCall ==
    [][ /\ (pc[Caller] = "attempt" /\ pc'[Caller] = "done") =>
             /\ i[Caller] < numProviders
             /\ attempts[Caller] = i[Caller] + 1
             /\ providerIndex[Caller] = (startIndex[Caller] + i[Caller]) % numProviders
             /\ currentProviderIndex' = providerIndex[Caller]
             /\ attempts'[Caller] = attempts[Caller]
        /\ (pc[Caller] = "done" /\ pc'[Caller] = "done") =>
             attempts'[Caller] = attempts[Caller] ]_vars

\* C1 witness: with 4 endpoints a call that started at endpoint 2 succeeded at
\* position 2, on endpoint 0
C1_Witness ==
    /\ pc[Caller] = "done" /\ numProviders = 4 /\ attempts[Caller] = 3
    /\ startIndex[Caller] = 2 /\ currentProviderIndex = 0

\* C2: a call whose attempts all fail ends with AllProvidersUnavailable after
\* exactly numProviders attempts, and currentProviderIndex is what it was when
\* the call was made.
C2_AllFail ==
    pc[Caller] = "failed" =>
        /\ result[Caller] = "AllProvidersUnavailable"
        /\ attempts[Caller] = numProviders
        /\ currentProviderIndex = startIndex[Caller]

\* C2 witness: all 4 endpoints failed for a call that started at endpoint 1
C2_Witness ==
    /\ pc[Caller] = "failed" /\ numProviders = 4
    /\ startIndex[Caller] = 1 /\ attempts[Caller] = 4

\* C3: the first endpoint a call attempts is the endpoint of the most recent
\* successful attempt (endpoint 0 before any success).
C3_StartsAtLastGood ==
    [][ (pc[Caller] # "attempt" /\ pc'[Caller] = "attempt") =>
            providerIndex'[Caller] = lastGood ]_vars

\* C3 witness: a call whose first attempt goes to endpoint 2 of 4
C3_Witness ==
    /\ pc[Caller] = "attempt" /\ i[Caller] = 0 /\ attempts[Caller] = 1
    /\ providerIndex[Caller] = 2 /\ numProviders = 4

\* C4: every attempt of a call goes to endpoint (start + i) mod n, where start
\* is currentProviderIndex as read when the call began, whatever other calls
\* do in the meantime.
C4_RotationOrder ==
    \A c \in Calls :
        pc[c] = "attempt" =>
            providerIndex[c] = (startIndex[c] + i[c]) % numProviders

\* C5: against endpoints that do not change, a call ends in
\* AllProvidersUnavailable only if no endpoint answers.
C5_NoSpuriousFailure ==
    \A c \in Calls : pc[c] = "failed" => healthy = {}

\* C6: currentProviderIndex is always an index of a configured endpoint, and
\* it changes only in the step in which an attempt succeeds, to the endpoint
\* of that attempt.
C6_IndexInvariant ==
    /\ [](currentProviderIndex \in 0..(numProviders - 1))
    /\ [][ currentProviderIndex' # currentProviderIndex =>
             \E c \in Calls : /\ pc[c] = "attempt" /\ pc'[c] = "done"
                              /\ currentProviderIndex' = providerIndex[c] ]_vars

\* C6 witness: two calls in flight after the index moved to the last endpoint
C6_Witness ==
    /\ numProviders = 4 /\ currentProviderIndex = 3
    /\ \A c \in Calls : pc[c] = "attempt"

\* the step of call c is the catch block run for a fired timer
TimerFired(c) ==
    /\ pc[c] = "attempt"
    /\ lastError'[c] = "Request timeout"
    /\ (i'[c] # i[c] \/ pc'[c] = "failed")

\* C7: a fired timer ends the attempt like an error does (the next endpoint of
\* the rotation is attempted once, or the call fails after the last one), and
\* every call reaches a terminal state even if no provider request settles.
C7_TimeoutThenNext ==
    /\ [][ TimerFired(Caller) =>
             IF i[Caller] + 1 < numProviders
             THEN /\ pc'[Caller] = "attempt"
                  /\ attempts'[Caller] = attempts[Caller] + 1
                  /\ providerIndex'[Caller] = (startIndex[Caller] + i[Caller] + 1) % numProviders
             ELSE /\ pc'[Caller] = "failed"
                  /\ attempts'[Caller] = attempts[Caller] ]_vars
    /\ (pc[Caller] = "attempt") ~> Terminal(Caller)

\* C7 witness: a call on 4 endpoints ended after the timer of its last attempt fired
C7_Witness ==
    /\ pc[Caller] = "failed" /\ lastError[Caller] = "Request timeout"
    /\ numProviders = 4 /\ attempts[Caller] = 4

\* C8: getTransactionByHash with a malformed hash fails with InvalidArgument
\* without an attempt on any endpoint and leaves currentProviderIndex alone.
C8_InvalidHashFailsFast ==
    ( /\ pc[Caller] # "idle"
      /\ operation[Caller] = "getTransactionByHash"
      /\ ~WellFormedHash(args[Caller].txHash) ) =>
        /\ result[Caller] = "InvalidArgument"
        /\ attempts[Caller] = 0
        /\ currentProviderIndex = startIndex[Caller]

\* C9: when the endpoint answers a request of getTransactionByHash with
\* nothing (no transaction, no receipt, no block), the call is done with the
\* result null.
C9_NothingIsNotFound ==
    ( operation[Caller] = "getTransactionByHash" /\ lastAnswer[Caller] = "nothing" ) =>
        /\ pc[Caller] = "done"
        /\ result[Caller] = "null"

\* C9 witness: a pending transaction (found, but without a receipt) on the
\* third endpoint tried
C9_Witness ==
    /\ operation[Caller] = "getTransactionByHash" /\ lastAnswer[Caller] = "nothing"
    /\ request[Caller] = "getTransactionReceipt" /\ attempts[Caller] = 3

\* C10: one attempt of the scan fetches at most ScanWindow blocks, and no
\* more than the latestBlockNumber + 1 blocks of a shorter chain.
C10_ScanWindow ==
    blocksFetched[Caller] <= Min(ScanWindow, scan[Caller].latestBlockNumber + 1)

\* ------------------------------------------------------------ scan results

ScanDone(c) == pc[c] = "done" /\ operation[c] = "getTransactionsByAddress"

\* hash and block of the records of a list / of the entries of a list
RecordKeys(txs) == [k \in 1..Len(txs) |-> <<txs[k].hash, txs[k].blockNumber>>]
EntryKeys(es) == [k \in 1..Len(es) |-> <<es[k].tx.hash, es[k].blockNumber>>]

\* C11 as stated: a scan that ends below the limit returns exactly the
\* matching transactions of the window (here: of the blocks that loaded),
\* none of them missing.
C11_ExactlyTheMatches ==
    (ScanDone(Caller) /\ Len(scan[Caller].transactions) < args[Caller].limit) =>
        /\ RecordKeys(scan[Caller].transactions) = EntryKeys(expected[Caller])
        /\ ~missed[Caller]

\* C11 amended: a scan that ends below the limit returns, newest first and
\* each once, exactly the matching transactions of the blocks that loaded,
\* except those without a receipt and those of a block from the first failed
\* receipt request on.
C11_MatchesWithReceipt ==
    (ScanDone(Caller) /\ Len(scan[Caller].transactions) < args[Caller].limit) =>
        LET txs == scan[Caller].transactions
        IN  /\ RecordKeys(txs) = EntryKeys(expected[Caller])
            /\ \A k \in 1..Len(txs) : \A m \in 1..Len(txs) :
                   /\ k < m => txs[k].blockNumber >= txs[m].blockNumber
                   /\ k # m => RecordKeys(txs)[k] # RecordKeys(txs)[m]

\* C11 witness: a scan with limit 2 over the blocks 0..2 ended with one
\* record, of block 1, after it gave up another matching transaction
C11_Witness ==
    /\ ScanDone(Caller) /\ args[Caller].limit = 2 /\ missed[Caller]
    /\ scan[Caller].latestBlockNumber = 2
    /\ Len(scan[Caller].transactions) = 1
    /\ scan[Caller].transactions[1].blockNumber = 1

\* C12: the scan never holds more than limit records, no request of the scan
\* is in flight once limit records are collected, and the step that records
\* the limit-th match returns without fetching another block.
C12_StopsAtLimit ==
    /\ []( operation[Caller] = "getTransactionsByAddress" =>
             /\ Len(scan[Caller].transactions) <= args[Caller].limit
             /\ ( pc[Caller] = "attempt" /\ request[Caller] \in {"getBlockOfScan", "getReceiptOfScan"} )
                   => Len(scan[Caller].transactions) < args[Caller].limit )
    /\ [][ ( /\ pc[Caller] = "attempt" /\ operation[Caller] = "getTransactionsByAddress"
             /\ Len(scan[Caller].transactions) < args[Caller].limit
             /\ Len(scan'[Caller].transactions) = args[Caller].limit ) =>
               /\ pc'[Caller] = "done"
               /\ blocksFetched'[Caller] = blocksFetched[Caller] ]_vars

\* C12 witness: a scan with limit 1 returned its one record from a block that
\* held two matching transactions, with blocks of the window left unfetched
C12_Witness ==
    /\ ScanDone(Caller) /\ args[Caller].limit = 1
    /\ Len(scan[Caller].transactions) = 1 /\ Len(expected[Caller]) = 2
    /\ scan[Caller].blockNumber >= scan[Caller].startBlock
    /\ blocksFetched[Caller] = 1 /\ scan[Caller].latestBlockNumber = 2

\* the step of call c is the catch block of the scan run for a rejected getBlock
BlockFailed(c) ==
    /\ pc[c] = "attempt" /\ request[c] = "getBlockOfScan"
    /\ lastAnswer'[c] = "rejected"

\* C13: a block that fails to load ends neither the scan nor the attempt: the
\* records and the matches collected so far are kept, and the scan goes on
\* with the block below on the same endpoint or, after the last block of the
\* window, returns the list.
C13_FailedBlockSkipped ==
    [][ BlockFailed(Caller) =>
          /\ pc'[Caller] \in {"attempt", "done"}
          /\ attempts'[Caller] = attempts[Caller]
          /\ scan'[Caller].transactions = scan[Caller].transactions
          /\ expected'[Caller] = expected[Caller]
          /\ IF scan[Caller].blockNumber > scan[Caller].startBlock
             THEN /\ pc'[Caller] = "attempt" /\ request'[Caller] = "getBlockOfScan"
                  /\ scan'[Caller].blockNumber = scan[Caller].blockNumber - 1
                  /\ providerIndex'[Caller] = providerIndex[Caller]
             ELSE /\ pc'[Caller] = "done" /\ result'[Caller] = "transactions" ]_vars

\* C13 witness: block 1 of the window 0..2 failed to load after a match in
\* block 2 was recorded, and the scan asks for block 0
C13_Witness ==
    /\ pc[Caller] = "attempt" /\ request[Caller] = "getBlockOfScan"
    /\ lastAnswer[Caller] = "rejected"
    /\ scan[Caller].latestBlockNumber = 2 /\ scan[Caller].blockNumber = 0
    /\ Len(scan[Caller].transactions) = 1 /\ args[Caller].limit = 2

\* the error err carries n as the count of endpoints tried
CarriesCount(err, n) == "tried" \in DOMAIN err /\ err.tried = n

C15_OneEndpointPerResult ==
    /\ []( pc[Caller] = "attempt" =>
             /\ contacted[Caller] = {providerIndex[Caller]}
             /\ attempts[Caller] \in 1..numProviders )
    /\ [][ (pc[Caller] = "attempt" /\ pc'[Caller] = "done") =>
             /\ contacted[Caller] = {currentProviderIndex'}
             /\ attempts'[Caller] = attempts[Caller] ]_vars

\* C15 witness: the second attempt of getTransactionByHash, on endpoint 3 of
\* 4, waits for its third request
C15_Witness ==
    /\ pc[Caller] = "attempt" /\ operation[Caller] = "getTransactionByHash"
    /\ request[Caller] = "getBlockOfTransaction" /\ attempts[Caller] = 2
    /\ numProviders = 4 /\ contacted[Caller] = {3}

\* ------------------------------------------------------------------ records

\* C16: in the record of getTransactionByHash and in the record of the scan a
\* missing recipient is null, never an address put in its place, and a
\* present recipient (the zero address included) is the address as delivered.
C16_RecipientKept ==
    norm.stage \in {"byHash", "scanned"} =>
        LET to == norm.record[1].to
        IN  /\ norm.tx.to = "null" => to = <<>>
            /\ norm.tx.to # "null" => to = <<[address |-> norm.tx.to]>>

\* C16 witness: the scan made a record of a contract creation
C16_Witness ==
    /\ norm.stage = "scanned" /\ norm.tx.to = "null"
    /\ norm.record[1].to = <<>> /\ norm.record[1].blockNumber = 2

\* the bigint n times ten plus the digit d
TimesTenPlus(n, d) ==
    LET m == Len(n)
        step[k \in 0..m] ==
            IF k = 0 THEN [digits |-> <<>>, carry |-> d]
            ELSE LET cur == n[m - k + 1] * 10 + step[k - 1].carry
                 IN  [digits |-> <<cur % 16>> \o step[k - 1].digits,
                      carry |-> cur \div 16]
    IN  StripZeros(<<step[m].carry>> \o step[m].digits)

\* the bigint that a list of decimal digits denotes
StringToBigInt(str) ==
    LET acc[k \in 0..Len(str)] ==
            IF k = 0 THEN <<>> ELSE TimesTenPlus(acc[k - 1], str[k])
    IN  acc[Len(str)]

\* C17: the value of the record of getTransactionByHash is the amount of the
\* provider transaction in decimal digits, exactly: read back as a number it
\* is the amount, and it is written without leading zeros.
C17_ValueRoundTrip ==
    norm.stage = "byHash" =>
        LET value == norm.record[1].value
        IN  /\ StringToBigInt(value) = norm.tx.value
            /\ \A k \in 1..Len(value) : value[k] \in 0..9
            /\ Len(value) >= 1 /\ (Len(value) > 1 => value[1] # 0)

\* C17 witness: 1 ETH, 10^18 wei, became "1000000000000000000"
C17_Witness ==
    /\ norm.stage = "byHash" /\ norm.tx.value = OneEther
    /\ norm.record[1].value = <<1>> \o [k \in 1..18 |-> 0]

\* -------------------------------------------------------- query components

NotFoundMessages ==
    {TxNotFoundError, TxNotFoundNotice, AddrNotFoundError, AddrNotFoundNotice}

\* C18: after an RPC query that found nothing no message of an unreachable
\* service is on the screen, and after a query that failed because all
\* endpoints were unreachable no message of "not found" is on the screen; in
\* both cases some message is.
C18_OutcomesDistinct ==
    /\ ui.outcome = "nothing" =>
          /\ Visible(ui) \cap FailureMessages = {}
          /\ Visible(ui) \cap NotFoundMessages # {}
    /\ ui.outcome = "unreachable" =>
          /\ Visible(ui) \cap NotFoundMessages = {}
          /\ Visible(ui) \cap FailureMessages # {}

\* a query for the hash searched is in flight or has ended
QueryRan(u) ==
    IF u.dataSource = "graph" THEN u.graph # "idle"
    ELSE u.pending \/ u.outcome # "none"

\* TransactionQuery has been mounted with the hash of a transfer
AutoFilled ==
    \E txHash \in TransferHashes :
        /\ ui' = AutoFill([Mounted("TransactionQuery") EXCEPT !.initialTxHash = txHash])
        /\ ui'.input = txHash /\ ui'.searchHash = txHash /\ ui'.initialTxHash = ""

\* C21: when TransactionQuery takes a new initialTxHash, the input and
\* searchHash hold it, the parent is notified, and a query for it runs
\* without a press of the search button, with 'rpc' as with 'graph'; what
\* is shown afterwards is the outcome of a query that ran.
C21_AutoQuery ==
    [][AutoFilled => /\ QueryRan(ui')
                     /\ TxNotFoundNotice \notin Visible(ui')]_vars

\* C23: after handleDataSourceChange or handleClear of TransactionQuery the
\* RPC result and the RPC error stay cleared until a new search is
\* submitted, also when a query submitted before was still in flight and
\* ends afterwards.
C23_StaysCleared ==
    (ui.component = "TransactionQuery" /\ ui.cleared) =>
        (ui.data = "none" /\ ui.error = NoMessage)

\* C24: in TransactionQuery rpcLoading is true exactly while an RPC query
\* started by handleSearch is in flight; it is false again once the service
\* call has returned a record, returned nothing or thrown.
C24_LoadingWhileInFlight ==
    ui.component = "TransactionQuery" =>
        /\ ui.loading <=> ui.pending
        /\ ui.outcome # "none" => ~ui.loading

\* C24 witness: the service call has thrown and the component is not loading
C24_Witness ==
    /\ ui.component = "TransactionQuery"
    /\ ui.outcome = "unreachable" /\ ~ui.pending /\ ~ui.loading
    /\ ui.error \in FailureMessages

\* ---------------------------------------------------------------- not found

\* the step is a provider request of getTransactionByHash or getBlockByNumber
\* answered with null
AnsweredNothing ==
    /\ pc[Caller] = "attempt"
    /\ operation[Caller] \in {"getTransactionByHash", "getBlockByNumber"}
    /\ lastAnswer'[Caller] = "nothing"

\* C28: when an endpoint answers that there is no such transaction, receipt
\* or block, the call returns null at once: no other endpoint is asked, and
\* the endpoint that answered is the one remembered.
C28_NotFoundIsSuccess ==
    [][AnsweredNothing =>
          /\ pc'[Caller] = "done" /\ result'[Caller] = "null"
          /\ attempts'[Caller] = attempts[Caller]
          /\ currentProviderIndex' = providerIndex[Caller]
          /\ lastGood' = providerIndex[Caller]]_vars

\* C28 witness: getTransactionByHash returned null from endpoint 1, the
\* second endpoint it asked, and that endpoint is remembered
C28_Witness ==
    /\ operation[Caller] = "getTransactionByHash"
    /\ pc[Caller] = "done" /\ result[Caller] = "null"
    /\ lastAnswer[Caller] = "nothing"
    /\ startIndex[Caller] = 0 /\ attempts[Caller] = 2
    /\ currentProviderIndex = 1 /\ lastGood = 1

\* ------------------------------------------------------ abandoned attempts

\* the step is the late end of what an attempt left behind
LateStep ==
    \/ late'.operations # late.operations /\ late'.operations \subseteq late.operations
    \/ late.timer /\ ~late'.timer

\* C27: when an operation that its attempt gave up on a fired timer resolves
\* or rejects later, or a timer fires after its attempt succeeded, neither
\* the endpoint remembered nor the state, result or failure of any call
\* changes.
C27_NoLateEffect ==
    [][LateStep => /\ currentProviderIndex' = currentProviderIndex
                   /\ lastGood' = lastGood
                   /\ pc' = pc /\ result' = result /\ lastError' = lastError
                   /\ i' = i /\ providerIndex' = providerIndex
                   /\ request' = request]_vars

\* C27 witness: a call that succeeded on its second attempt after the timer
\* of the first fired; the operation left running has settled and the timer
\* left set has fired since, and the call is still the success it was
C27_Witness ==
    /\ pc[Caller] = "done" /\ result[Caller] = "height"
    /\ attempts[Caller] = 2 /\ lastGood = 1
    /\ late.settled /\ late.fired
    /\ late.operations = {} /\ ~late.timer

\* ----------------------------------------------------------------- heights

\* the step of call c returns a height
HeightReturned(c) ==
    /\ pc[c] = "attempt" /\ operation[c] = "getCurrentBlockNumber"
    /\ pc'[c] = "done"

\* C19 as stated: the value a call of getCurrentBlockNumber returns is never
\* below the value the call before it returned, whichever endpoints answered.
C19_Monotonic ==
    [][ HeightReturned(Caller) => nodeHeights'.last >= nodeHeights.last ]_vars

\* C19 amended: the value returned is the height the answering endpoint
\* reports, and it is not below the value of the call before when the same
\* endpoint answered both.
C19_MonotonicPerEndpoint ==
    [][ HeightReturned(Caller) =>
          /\ nodeHeights'.last = nodeHeights.chain[currentProviderIndex']
          /\ lastGood' = lastGood => nodeHeights'.last >= nodeHeights.last ]_vars

\* C19 witness: endpoint 1 of 4 answered two calls in a row, the second with
\* height 2, while endpoint 0 is at height 0
C19_Witness ==
    /\ pc[Caller] = "done" /\ numProviders = 4
    /\ startIndex[Caller] = 1 /\ attempts[Caller] = 1 /\ lastGood = 1
    /\ nodeHeights.last = 2 /\ nodeHeights.chain[0] = 0

\* ---------------------------------------------------------------- hexUtils

\* C20: for every non-empty string of valid code points, those above 0xFFFF
\* included, hex2str gives the string back from its str2hex encoding, and
\* isValidHex accepts the encoding.
C20_HexRoundTrip ==
    /\ "hex2str" \in hex.called => (~hex.thrown /\ hex.decoded = hex.str)
    /\ "isValidHex" \in hex.called => hex.valid

\* ---------------------------------------------------------- WalletTransfer

\* C22: isTransferring is true once a transfer has started, and whenever it
\* is true it is false again later, after the confirmation as after a
\* failure (rejected submission, error of the receipt), so that the send
\* button can be enabled again.
C22_TransferringEnds ==
    (wallet.isTransferring) ~> (~wallet.isTransferring)

\* ------------------------------------------------- SimpleTransferContract

\* the storage and the log, without the note of the last transaction
Storage(c) == <<c.totalRecords, c.userRecordCount, c.recordExists, c.events>>

RECURSIVE SumOver(_, _)
SumOver(count, accounts) ==
    IF accounts = {} THEN 0
    ELSE LET a == CHOOSE a \in accounts : TRUE
         IN  count[a] + SumOver(count, accounts \ {a})

\* C25: a transaction with a zero recipient, a zero value or arrays of
\* unequal length reverts, and a recordTransfer that does not revert has
\* made an identifier that did not exist; a reverted transaction leaves
\* totalRecords, userRecordCount, recordExists and the log as they were; a
\* batch records all its elements or none.
C25_RevertsWhole ==
    [][LET last == contract'.last
       IN  /\ last.invalid => last.reverted # <<>>
           /\ (last.op = "recordTransfer" /\ last.reverted = <<>>) =>
                 contract'.events[Len(contract'.events)].recordId
                    \notin contract.recordExists
           /\ last.reverted # <<>> => Storage(contract') = Storage(contract)
           /\ last.reverted = <<>> =>
                 /\ Len(contract'.events) = Len(contract.events) + last.length
                 /\ contract'.totalRecords = contract.totalRecords + last.length]_vars

\* C25 witness: a batch of two reverted on a zero value after a record was
\* made, and that record is all there is
C25_Witness ==
    /\ contract.last.op = "batchRecordTransfer" /\ contract.last.length = 2
    /\ contract.last.reverted = <<"InvalidValue">>
    /\ contract.totalRecords = 1 /\ Len(contract.events) = 1

\* C26: after every transaction totalRecords is the number of events logged,
\* the sum of userRecordCount over the senders and the number of
\* identifiers in recordExists; a recordTransfer that does not revert adds 1
\* to totalRecords and to the count of its sender and leaves the counts of
\* the others.
C26_CountsAgree ==
    [][LET c == contract'
       IN  /\ c.totalRecords = Len(c.events)
           /\ c.totalRecords = SumOver(c.userRecordCount, Senders)
           /\ c.totalRecords = Cardinality(c.recordExists)
           /\ (c.last.op = "recordTransfer" /\ c.last.reverted = <<>>) =>
                 /\ c.totalRecords = contract.totalRecords + 1
                 /\ c.userRecordCount[c.last.sender]
                       = contract.userRecordCount[c.last.sender] + 1
                 /\ \A s \in Senders \ {c.last.sender} :
                       c.userRecordCount[s] = contract.userRecordCount[s]]_vars

\* C26 witness: both senders have records and the last transaction reverted
C26_Witness ==
    /\ contract.totalRecords >= 2
    /\ \A s \in Senders : contract.userRecordCount[s] >= 1
    /\ contract.last.reverted # <<>>

\* C29: an address search submitted through AddressQuery returns every
\* transaction of the loaded blocks whose sender or recipient is the entered
\* address, whatever the letter case of the typed address and of the
\* addresses that the provider reports (no receipt being missed).
C29_AnyLetterCase ==
    (ScanDone(Caller) /\ search.address # "" /\ ~missed[Caller]) =>
        \A e \in search.found :
            \E k \in 1..Len(scan[Caller].transactions) :
                /\ scan[Caller].transactions[k].hash = e.tx.hash
                /\ scan[Caller].transactions[k].blockNumber = e.blockNumber

\* the receipt request of the scan of call c is answered with null
NoReceiptStep(c) ==
    /\ pc[c] = "attempt" /\ request[c] = "getReceiptOfScan"
    /\ lastAnswer'[c] = "nothing"

\* the record rec holds gasUsed and status of the receipt of its transaction
FromReceipt(rec) ==
    \E tx \in TxObjects :
        /\ tx.hash = rec.hash
        /\ rec.gasUsed = BigIntToString(ReceiptOf(tx).gasUsed)
        /\ rec.status = (IF ReceiptOf(tx).status # 0 THEN "1" ELSE "0")

\* C30: a matching transaction for which the endpoint returns no receipt is
\* left out of the result and does not count toward limit, and the scan goes
\* on with the next matching transaction of the block, else with the next
\* block, else returns; a record is added only on the arrival of a receipt,
\* and every record holds gasUsed and status of the receipt of its transaction.
C30_NoReceiptOmitted ==
    /\ []( \A k \in 1..Len(scan[Caller].transactions) :
               FromReceipt(scan[Caller].transactions[k]) )
    /\ [][ /\ NoReceiptStep(Caller) =>
               LET s == scan[Caller]
                   k == NextMatch(s.block, s.pos, args[Caller].address)
               IN  /\ scan'[Caller].transactions = s.transactions
                   /\ IF k # 0
                      THEN /\ pc'[Caller] = "attempt"
                           /\ request'[Caller] = "getReceiptOfScan"
                           /\ scan'[Caller].block = s.block
                           /\ scan'[Caller].pos = k
                           /\ scan'[Caller].blockNumber = s.blockNumber
                      ELSE IF s.blockNumber - 1 >= s.startBlock
                      THEN /\ pc'[Caller] = "attempt"
                           /\ request'[Caller] = "getBlockOfScan"
                           /\ scan'[Caller].blockNumber = s.blockNumber - 1
                      ELSE /\ pc'[Caller] = "done"
                           /\ result'[Caller] = "transactions"
           /\ Len(scan'[Caller].transactions) > Len(scan[Caller].transactions) =>
               /\ request[Caller] = "getReceiptOfScan"
               /\ lastAnswer'[Caller] = "value" ]_vars

\* C30 witness: with one record collected from a newer block, the first
\* matching transaction of the next block had no receipt, and the scan asks
\* for the receipt of the second one
C30_Witness ==
    /\ pc[Caller] = "attempt" /\ request[Caller] = "getReceiptOfScan"
    /\ lastAnswer[Caller] = "nothing" /\ missed[Caller]
    /\ scan[Caller].pos = 2
    /\ Len(scan[Caller].transactions) = 1
    /\ scan[Caller].transactions[1].blockNumber > scan[Caller].blockNumber
    /\ args[Caller].limit = 2

=============================================================================
